---- MODULE Spec2Model ----
(***************************************************************************)
(* A model of the SAP procurement data generator (SAPDataGenerator) of     *)
(* src/src/generator/sap_generator.py.                                     *)
(*                                                                         *)
(* Representation.                                                         *)
(*  - A table (pandas DataFrame) is a sequence of records, one record per  *)
(*    row in row order; an attribute holds None or Frame(rows).             *)
(*  - A date is an integer number of days; config.start_date is a day      *)
(*    number and pd.Timedelta(days=k) adds k.                              *)
(*  - A probability, a fraction and a factor are integers in percent (or   *)
(*    per mille where the source needs it); a price is an integer number   *)
(*    of 1/10000 currency units, so that the two percent factors the       *)
(*    source applies to a base price leave no remainder.                   *)
(*  - A key produced by an f-string (f"V{i:07d}", f"PO{i:08d}", ...) is    *)
(*    the pair <<prefix, i>>: zero padding never truncates, so the         *)
(*    formatting is injective on i and keeps the prefix apart.             *)
(*  - Every pseudo-random draw is a choice from the set of values the      *)
(*    distribution can yield, sampled on a grid that keeps the end points  *)
(*    of each range.  numpy's and Faker's generators are process-wide      *)
(*    objects: a generator state is the seed it was last seeded with and   *)
(*    the draw calls made since; what a state yields is fixed the first    *)
(*    time it is drawn from (variable stream) and replayed afterwards.     *)
(*  - Columns no stage reads and no property mentions (LAND1, ORT01,       *)
(*    STRAS, TELF1, SMTP_ADDR, MTART, MEINS, ERSDA, BRGEW, NTGEW,          *)
(*    VOLUME_COMMITMENT, CONTRACT_TYPE, BUKRS, WAERS, EKORG, EKGRP, BEDAT, *)
(*    WERKS, HAS_ISSUE, RESPONSE_DAYS) are left out of the rows.           *)
(***************************************************************************)
EXTENDS Integers, Sequences, FiniteSets, TLC

VARIABLES
    config,      \* config[g]: the GeneratorConfig generator g was built with
    wide,        \* the draws that are enumerated over their whole grid
    phase,       \* phase[g]: "new", "built", "done" (generate_all returned), "stopped"
    raised,      \* the exception that ended the run, or NoException
    last_call,   \* <<g, stage>> of the latest stage call
    np_state,    \* numpy's global generator: [seed, calls]
    fk_state,    \* Faker's shared generator: [seed, calls]
    stream,      \* what each generator state already yielded
    lfa1, mara, contracts, ekko, ekpo, ekbe,  \* the six tables of each generator
    files,       \* the data directory the quality engine reads: table name -> file
    data,        \* DQCore.data: the tables loaded so far
    results,     \* DQCore.results: score, checks and profile
    report,      \* what generate_html_report wrote to the report directory, or None
    pc,          \* where the engine's caller stands: "idle", inside run, or "crashed"
    dq_raised,   \* the exception that left run, or NoException
    observed     \* what the caller saw at the return of each run call

gen_vars == <<config, wide, phase, raised, last_call, np_state, fk_state, stream,
              lfa1, mara, contracts, ekko, ekpo, ekbe>>

dq_vars == <<files, data, results, report, pc, dq_raised, observed>>

vars == <<gen_vars, dq_vars>>

tables == <<lfa1, mara, contracts, ekko, ekpo, ekbe>>

\* Python's None, and a DataFrame held by an attribute that may be None.
None == <<>>

Frame(rows) == <<rows>>

Rows(frame) == frame[1]

NoException == "NoException"

\* The generators the program builds, one after the other.
Gens == DOMAIN config

GenIds == {1, 2}

Stages == {"lfa1", "mara", "contracts", "ekko", "ekpo", "ekbe"}

-----------------------------------------------------------------------------
(* Arithmetic and sequence helpers.                                        *)

Min(a, b) == IF a <= b THEN a ELSE b

Max(a, b) == IF a >= b THEN a ELSE b

\* int(x) of Python: truncation toward zero of the quotient a / b, b > 0.
TruncDiv(a, b) == IF a >= 0 THEN a \div b ELSE -((-a) \div b)

\* The end points of the range lo..hi: the grid a draw from lo..hi is sampled on.
Ends(lo, hi) == IF lo > hi THEN {} ELSE {lo, hi}

RECURSIVE Gcd(_, _)
Gcd(a, b) == IF b = 0 THEN a ELSE Gcd(b, a % b)

\* The fraction num / den (den > 0) in lowest terms.
Rat(num, den) == LET d == Gcd(num, den) IN <<num \div d, den \div d>>

RatLess(p, q) == p[1] * q[2] < q[1] * p[2]

Range(s) == {s[i] : i \in DOMAIN s}

RECURSIVE SumOver(_, _)
SumOver(f, S) ==
    IF S = {} THEN 0 ELSE LET x == CHOOSE y \in S : TRUE IN f[x] + SumOver(f, S \ {x})

\* The set of permutations of 1..n.
Perms(n) == {p \in [1..n -> 1..n] : \A i, j \in 1..n : p[i] = p[j] => i = j}

IdentityPerm(n) == [i \in 1..n |-> i]

\* The arrays a whose element a[i] is drawn from the set sets[i].
RECURSIVE Arrays(_)
Arrays(sets) ==
    IF sets = <<>> THEN {<<>>}
    ELSE {Append(a, x) : a \in Arrays(SubSeq(sets, 1, Len(sets) - 1)), x \in sets[Len(sets)]}

\* np.random.random() < p, p in percent: the outcomes the comparison can take.
Bernoulli(p) == {b \in BOOLEAN : (b => p > 0) /\ (~b => p < 100)}

-----------------------------------------------------------------------------
(* GeneratorConfig.                                                        *)

\* The number of 1/10000 units in one currency unit.
PriceUnit == 100 * 100

\* The sizes of the data sets explored: vendors, materials, items per order, and
\* the length of the simulation in days.
NumVendors == 2

NumMaterials == 2

MaxItems == 2

SimDays == 200

\* The largest number of materials for which the category partition is explored.
MaxTotal == 10

\* The configuration every explored configuration is a variation of: the seed, the
\* Pareto and preferred-vendor ratios, the contract duration and the invoice
\* processing range are the defaults of GeneratorConfig; the sizes are small, and
\* a range or rate that a scenario does not vary is narrowed to one value.
DefaultConfig ==
    [seed                     |-> 4242,
     start_date               |-> 0,
     end_date                 |-> SimDays,
     num_vendors              |-> NumVendors,
     num_materials            |-> NumMaterials,
     num_pos                  |-> 1,
     num_contracts            |-> 1,
     pareto_split             |-> 20,
     pareto_spend_share       |-> 80,
     preferred_vendor_ratio   |-> 10,
     preferred_price_discount |-> <<10, 10>>,
     contract_discount_range  |-> <<10, 10>>,
     price_volatility         |-> 0,
     large_order_prob         |-> 0,
     large_order_value_range  |-> <<300, 300>>,
     po_item_count            |-> [median |-> 3, sigma |-> 0],
     po_max_items             |-> 1,
     delivery_delay_probs     |-> <<100, 0, 0>>,
     contract_duration_range  |-> <<365, 1095>>,
     invoice_generation_rate  |-> 100,
     invoice_processing_range |-> <<5, 30>>,
     price_range              |-> [c \in {"ELECT_F", "ELECT_P", "OFFICE", "RAW", "SERV"} |-> <<100, 100>>]]

-----------------------------------------------------------------------------
(* The process-wide pseudo-random generators.                              *)

Seeded(seed) == [seed |-> seed, calls |-> <<>>]

\* The generator state after the draws of one stage step.
Advance(state, tag) == [state EXCEPT !.calls = Append(@, tag)]

\* The key under which stream holds what generator state st yields to tag.
StreamKey(kind, st, tag, n) == <<kind, st.seed, st.calls, tag, n>>

\* A generator state that was drawn from before yields the same values again.
Replays(key, d) == key \in DOMAIN stream => stream[key] = d

-----------------------------------------------------------------------------
(* The driver: which stage calls happen.  generate_all calls the stages in *)
(* Pipeline order and then the cleanup; a test may also call one stage     *)
(* directly, ahead of its turn, and that ends the run.                     *)

Pipeline == <<"lfa1", "mara", "contracts", "ekko", "ekpo", "ekbe">>

TableOf(s) ==
    CASE s = "lfa1" -> lfa1
      [] s = "mara" -> mara
      [] s = "contracts" -> contracts
      [] s = "ekko" -> ekko
      [] s = "ekpo" -> ekpo
      [] s = "ekbe" -> ekbe

\* The stages of generator g that have not produced their table.
Unset(g) == {i \in DOMAIN Pipeline : TableOf(Pipeline[i])[g] = None}

\* The stage generate_all calls next.
InTurn(g, s) == Unset(g) # {} /\ \A i \in Unset(g) : \E j \in Unset(g) : j <= i /\ Pipeline[j] = s

CanCall(g, s) ==
    /\ g \in Gens
    /\ raised = NoException
    /\ phase[g] = "built"
    /\ TableOf(s)[g] = None

\* The bookkeeping of a call of stage s that returned.
Returned(g, s) ==
    /\ last_call' = <<g, s>>
    /\ raised' = NoException
    /\ phase' = IF InTurn(g, s) THEN phase ELSE [phase EXCEPT ![g] = "stopped"]

\* A call whose exception is caught and dropped, so that the run goes on.
Swallowed(g, s, e) ==
    /\ last_call' = <<g, s>>
    /\ raised' = NoException
    /\ UNCHANGED phase

\* The bookkeeping of a call of stage s that raised exception e.
Raised(g, s, e) ==
    /\ last_call' = <<g, s>>
    /\ raised' = e
    /\ UNCHANGED phase

-----------------------------------------------------------------------------
(* SAPDataGenerator.__init__                                               *)

\* A constructor that leaves the process-wide generators as they are.
ConstructUnseeded(g) ==
    /\ g \in Gens
    /\ UNCHANGED dq_vars
    /\ raised = NoException
    /\ phase[g] = "new"
    /\ IF g = 1 THEN TRUE ELSE phase[g - 1] = "done"
    /\ phase' = [phase EXCEPT ![g] = "built"]
    /\ lfa1' = [lfa1 EXCEPT ![g] = None]
    /\ mara' = [mara EXCEPT ![g] = None]
    /\ contracts' = [contracts EXCEPT ![g] = None]
    /\ ekko' = [ekko EXCEPT ![g] = None]
    /\ ekpo' = [ekpo EXCEPT ![g] = None]
    /\ ekbe' = [ekbe EXCEPT ![g] = None]
    /\ UNCHANGED <<config, wide, raised, last_call, stream, np_state, fk_state>>

Construct(g) ==
    /\ g \in Gens
    /\ UNCHANGED dq_vars
    /\ raised = NoException
    /\ phase[g] = "new"
    /\ IF g = 1 THEN TRUE ELSE phase[g - 1] = "done"
    /\ phase' = [phase EXCEPT ![g] = "built"]
    /\ np_state' = Seeded(config[g].seed)
    /\ fk_state' = Seeded(config[g].seed)
    /\ lfa1' = [lfa1 EXCEPT ![g] = None]
    /\ mara' = [mara EXCEPT ![g] = None]
    /\ contracts' = [contracts EXCEPT ![g] = None]
    /\ ekko' = [ekko EXCEPT ![g] = None]
    /\ ekpo' = [ekpo EXCEPT ![g] = None]
    /\ ekbe' = [ekbe EXCEPT ![g] = None]
    /\ UNCHANGED <<config, wide, raised, last_call, stream>>

\* DataFrame.sample(frac=1, random_state=seed).reset_index(drop=True): the rows
\* in the order perm, a permutation that the seed and the row count determine.
Sample(rows, perm) == [i \in 1..Len(rows) |-> rows[perm[i]]]

SampleKey(cfg, n) == <<"sample", cfg.seed, <<>>, "frac=1", n>>

SamplePerms(n) == IF "sample" \in wide THEN Perms(n) ELSE {IdentityPerm(n)}

\* The values a Faker provider call (fake.company(), fake.bs()) can return.
FakerValues(provider) == IF provider \in wide THEN {"fake_a", "fake_b"} ELSE {"fake_a"}

-----------------------------------------------------------------------------
(* _generate_lfa1                                                          *)

NumTop(cfg) == (cfg.num_vendors * cfg.pareto_split) \div 100

TopWeight(cfg) ==
    IF cfg.pareto_split > 0 /\ cfg.pareto_spend_share < 100
    THEN Rat(cfg.pareto_spend_share * (100 - cfg.pareto_split),
             cfg.pareto_split * (100 - cfg.pareto_spend_share))
    ELSE <<1, 1>>

\* The weights with one vendor too many in the top tier.
SpendWeightInclusive(cfg, i) == IF i - 1 <= NumTop(cfg) THEN TopWeight(cfg) ELSE <<1, 1>>

\* spend_weight of the vendor at position i (1-based) before the shuffle.
SpendWeight(cfg, i) == IF i - 1 < NumTop(cfg) THEN TopWeight(cfg) ELSE <<1, 1>>

NumPreferred(cfg) == (cfg.num_vendors * cfg.preferred_vendor_ratio) \div 100

NumPrefTop(cfg) == (NumPreferred(cfg) * 80) \div 100

NumPrefBottom(cfg) == NumPreferred(cfg) - NumPrefTop(cfg)

TopThreshold(cfg) ==
    IF NumTop(cfg) > 0 THEN Rat(NumPrefTop(cfg), NumTop(cfg)) ELSE <<0, 1>>

BottomThreshold(cfg) ==
    IF cfg.num_vendors - NumTop(cfg) > 0
    THEN Rat(NumPrefBottom(cfg), cfg.num_vendors - NumTop(cfg))
    ELSE <<0, 1>>

\* np.select(conditions, ["PREF", "PREF"], default="STD") for one vendor.
Ktokk(cfg, i, prob) ==
    IF RatLess(prob, TopThreshold(cfg)) /\ SpendWeight(cfg, i) = <<100, 1>> THEN "PREF"
    ELSE IF RatLess(prob, BottomThreshold(cfg)) /\ SpendWeight(cfg, i) = <<1, 1>> THEN "PREF"
    ELSE "STD"

\* np.random.random(): 0 and the thresholds it is compared with.
ProbValues(cfg) ==
    {<<0, 1>>} \cup {t \in {TopThreshold(cfg), BottomThreshold(cfg)} :
                        RatLess(<<0, 1>>, t) /\ RatLess(t, <<1, 1>>)}

\* Vendors are created up to five years before the simulation starts.
ErdatStart(cfg) == cfg.start_date - 365 * 5

Lfa1Draws(cfg) ==
    LET n == cfg.num_vendors IN
    [probs     : [1..n -> ProbValues(cfg)],
     sperr     : [1..n -> IF "sperr" \in wide THEN BOOLEAN ELSE {FALSE}],
     perf_bias : [1..n -> {0}],
     erdat     : [1..n -> IF "erdat" \in wide
                          THEN Ends(ErdatStart(cfg), cfg.start_date)
                          ELSE {ErdatStart(cfg)}]]

Lfa1FakerDraws(cfg) == [name1 : [1..cfg.num_vendors -> FakerValues("name1")]]

\* The vendor master before the shuffle.
Lfa1Rows(cfg, d, f) ==
    [i \in 1..cfg.num_vendors |->
        [LIFNR        |-> <<"V", i>>,
         NAME1        |-> f.name1[i],
         KTOKK        |-> Ktokk(cfg, i, d.probs[i]),
         SPERR        |-> IF d.sperr[i] THEN "X" ELSE "",
         ERDAT        |-> d.erdat[i],
         spend_weight |-> SpendWeight(cfg, i),
         perf_bias    |-> d.perf_bias[i]]]

GenerateLfa1(g) ==
    /\ CanCall(g, "lfa1")
    /\ UNCHANGED dq_vars
    /\ LET cfg == config[g]
           kn  == StreamKey("np", np_state, "lfa1", 0)
           kf  == StreamKey("faker", fk_state, "lfa1", 0)
           ks  == SampleKey(cfg, cfg.num_vendors)
       IN \E d \in Lfa1Draws(cfg), f \in Lfa1FakerDraws(cfg),
             perm \in SamplePerms(cfg.num_vendors) :
            /\ Replays(kn, d) /\ Replays(kf, f) /\ Replays(ks, perm)
            /\ lfa1' = [lfa1 EXCEPT ![g] = Frame(Sample(Lfa1Rows(cfg, d, f), perm))]
            /\ stream' = (kn :> d) @@ (kf :> f) @@ (ks :> perm) @@ stream
    /\ np_state' = Advance(np_state, "lfa1")
    /\ fk_state' = Advance(fk_state, "lfa1")
    /\ Returned(g, "lfa1")
    /\ UNCHANGED <<config, wide, mara, contracts, ekko, ekpo, ekbe>>

-----------------------------------------------------------------------------
(* _generate_mara                                                          *)

Categories == <<"ELECT_F", "ELECT_P", "OFFICE", "RAW", "SERV">>

\* The partition with every category truncated on its own, SERV at 10 percent.
CategoryCountTruncated(total, c) ==
    CASE c = "ELECT_F" -> (total * 20) \div 100
      [] c = "ELECT_P" -> (total * 15) \div 100
      [] c = "OFFICE"  -> (total * 30) \div 100
      [] c = "RAW"     -> (total * 25) \div 100
      [] c = "SERV"    -> (total * 10) \div 100

\* counts: the number of materials of each category, SERV taking the remainder.
CategoryCount(total, c) ==
    LET c_elect_f == (total * 20) \div 100
        c_elect_p == (total * 15) \div 100
        c_office  == (total * 30) \div 100
        c_raw     == (total * 25) \div 100
    IN CASE c = "ELECT_F" -> c_elect_f
         [] c = "ELECT_P" -> c_elect_p
         [] c = "OFFICE"  -> c_office
         [] c = "RAW"     -> c_raw
         [] c = "SERV"    -> total - (c_elect_f + c_elect_p + c_office + c_raw)

\* The categories of the materials in generation order (matkl.extend per batch).
RECURSIVE CategoryList(_, _)
CategoryList(total, k) ==
    IF k > Len(Categories) THEN <<>>
    ELSE [i \in 1..Max(CategoryCount(total, Categories[k]), 0) |-> Categories[k]]
         \o CategoryList(total, k + 1)

\* A display category decided by a test for "E" in category: all but RAW are ELECT.
DisplayCatLoose(c) == IF c # "RAW" THEN "ELECT" ELSE c

\* display_cat = "ELECT" if "ELECT" in category else category
DisplayCat(c) == IF c \in {"ELECT_F", "ELECT_P"} THEN "ELECT" ELSE c

\* exp(uniform(log(lo), log(hi))) in currency units, sampled at the end points.
BasePriceValues(cfg, c) ==
    {p * PriceUnit : p \in Ends(cfg.price_range[c][1], cfg.price_range[c][2])}

MaraDraws(cfg) ==
    LET cats == CategoryList(cfg.num_materials, 1) IN
    Arrays([i \in 1..Len(cats) |-> BasePriceValues(cfg, cats[i])])

MaraFakerDraws(cfg) ==
    [1..Len(CategoryList(cfg.num_materials, 1)) -> FakerValues("maktx")]

\* The material master before the shuffle; MATNR numbers the rows that exist.
MaraRows(cfg, d, f) ==
    LET cats == CategoryList(cfg.num_materials, 1) IN
    [i \in 1..Len(cats) |->
        [MATNR      |-> <<"M", i>>,
         MAKTX      |-> <<DisplayCat(cats[i]), f[i]>>,
         MATKL      |-> DisplayCat(cats[i]),
         base_price |-> d[i]]]

GenerateMara(g) ==
    /\ CanCall(g, "mara")
    /\ UNCHANGED dq_vars
    /\ LET cfg == config[g]
           kn  == StreamKey("np", np_state, "mara", 0)
           kf  == StreamKey("faker", fk_state, "mara", 0)
           ks  == SampleKey(cfg, Len(CategoryList(cfg.num_materials, 1)))
       IN \E d \in MaraDraws(cfg), f \in MaraFakerDraws(cfg),
             perm \in SamplePerms(Len(CategoryList(cfg.num_materials, 1))) :
            /\ Replays(kn, d) /\ Replays(kf, f) /\ Replays(ks, perm)
            /\ mara' = [mara EXCEPT ![g] = Frame(Sample(MaraRows(cfg, d, f), perm))]
            /\ stream' = (kn :> d) @@ (kf :> f) @@ (ks :> perm) @@ stream
    /\ np_state' = Advance(np_state, "mara")
    /\ fk_state' = Advance(fk_state, "mara")
    /\ Returned(g, "mara")
    /\ UNCHANGED <<config, wide, lfa1, contracts, ekko, ekpo, ekbe>>

-----------------------------------------------------------------------------
(* _generate_contracts                                                     *)

\* The positions of the vendors np.random.choice(..., p=p_weights) can return.
WeightedVendors(vendors) == {i \in DOMAIN vendors : vendors[i].spend_weight[1] > 0}

\* The least position of a set of positions, as a set.
First(S) == {i \in S : \A j \in S : i <= j}

\* The vendor and the material positions a choice is sampled from.
VendorChoices(vendors) ==
    IF "lifnr" \in wide THEN WeightedVendors(vendors) ELSE First(WeightedVendors(vendors))

MaterialChoices(materials) ==
    IF "matnr" \in wide THEN DOMAIN materials ELSE First(DOMAIN materials)

\* The drawn pairs with their repetitions kept.
KeepDuplicates(s) == s

\* DataFrame.drop_duplicates: the first occurrence of every element, in order.
RECURSIVE DropDuplicates(_)
DropDuplicates(s) ==
    IF s = <<>> THEN <<>>
    ELSE LET front == DropDuplicates(SubSeq(s, 1, Len(s) - 1))
             last  == s[Len(s)]
         IN IF last \in Range(front) THEN front ELSE Append(front, last)

\* DataFrame.head(n)
HeadRows(s, n) == SubSeq(s, 1, Min(Len(s), Max(n, 0)))

\* temp_df: the (vendor, material) pairs kept of the oversampled draws.
ContractPairs(cfg, pairs) == HeadRows(DropDuplicates(pairs), cfg.num_contracts)

\* A contract start drawn from the whole simulation range.
ValidFromNoRunway(cfg) == cfg.end_date

\* The last day a contract may start: three months of runway before sim_end.
ValidFromEnd(cfg) == cfg.end_date - 90

\* np.random.randint(low, high): low..high-1.
RandIntValues(low, high) == Ends(low, high - 1)

BasePriceOf(materials, matnr) ==
    (CHOOSE m \in Range(materials) : m.MATNR = matnr).base_price

ContractDraws(cfg, vendors, materials) ==
    LET target_draws == (cfg.num_contracts * 3) \div 2
        PairSeqs == [1..target_draws -> VendorChoices(vendors) \X MaterialChoices(materials)]
        Factors  == Ends(100 - cfg.contract_discount_range[2],
                         100 - cfg.contract_discount_range[1])
        Starts   == IF "valid_from" \in wide
                    THEN Ends(cfg.start_date, ValidFromEnd(cfg))
                    ELSE Ends(cfg.start_date, ValidFromEnd(cfg)) \cap {cfg.start_date}
        Days     == IF "duration" \in wide
                    THEN RandIntValues(cfg.contract_duration_range[1],
                                       cfg.contract_duration_range[2])
                    ELSE RandIntValues(cfg.contract_duration_range[1],
                                       cfg.contract_duration_range[2])
                         \cap {cfg.contract_duration_range[1]}
    IN UNION {
         LET n == Len(ContractPairs(cfg, ps)) IN
         {[pairs |-> ps, factor |-> f, valid_from |-> v, duration |-> u] :
             f \in [1..n -> Factors], v \in [1..n -> Starts], u \in [1..n -> Days]}
         : ps \in PairSeqs}

\* The draws that make np.random.choice or np.random.randint raise ValueError: a
\* choice from an empty array or an empty range, with at least one sample asked.
ContractDrawFails(cfg, vendors, materials) ==
    LET target_draws == (cfg.num_contracts * 3) \div 2 IN
    \/ target_draws > 0 /\ (WeightedVendors(vendors) = {} \/ materials = <<>>)
    \/ cfg.num_contracts > 0 /\ target_draws > 0 /\ cfg.start_date > ValidFromEnd(cfg)
    \/ cfg.contract_duration_range[1] >= cfg.contract_duration_range[2]

ContractRows(cfg, vendors, materials, d) ==
    LET temp_df == ContractPairs(cfg, d.pairs) IN
    [i \in 1..Len(temp_df) |->
        LET lifnr == vendors[temp_df[i][1]].LIFNR
            matnr == materials[temp_df[i][2]].MATNR
        IN [CONTRACT_ID    |-> <<"C", i>>,
            LIFNR          |-> lifnr,
            MATNR          |-> matnr,
            CONTRACT_PRICE |-> (BasePriceOf(materials, matnr) \div 100) * d.factor[i],
            VALID_FROM     |-> d.valid_from[i],
            VALID_TO       |-> d.valid_from[i] + d.duration[i]]]

GenerateContracts(g) ==
    /\ CanCall(g, "contracts")
    /\ UNCHANGED dq_vars
    /\ UNCHANGED <<config, wide, fk_state, lfa1, mara, ekko, ekpo, ekbe>>
    /\ IF lfa1[g] = None \/ mara[g] = None
       THEN /\ Raised(g, "contracts", "AssertionError")
            /\ UNCHANGED <<contracts, np_state, stream>>
       ELSE LET cfg == config[g]
                kn  == StreamKey("np", np_state, "contracts", 0)
            IN /\ np_state' = Advance(np_state, "contracts")
               /\ IF ContractDrawFails(cfg, Rows(lfa1[g]), Rows(mara[g]))
                  THEN /\ Raised(g, "contracts", "ValueError")
                       /\ UNCHANGED <<contracts, stream>>
                  ELSE /\ \E d \in ContractDraws(cfg, Rows(lfa1[g]), Rows(mara[g])) :
                            /\ Replays(kn, d)
                            /\ contracts' = [contracts EXCEPT ![g] =
                                   Frame(ContractRows(cfg, Rows(lfa1[g]), Rows(mara[g]), d))]
                            /\ stream' = (kn :> d) @@ stream
                       /\ Returned(g, "contracts")

-----------------------------------------------------------------------------
(* _generate_ekko                                                          *)

\* cutoff_date: orders of blocked vendors must lie before it.
CutoffDate(cfg) == cfg.end_date - 90

VendorOf(vendors, lifnr) == CHOOSE v \in Range(vendors) : v.LIFNR = lifnr

\* np.random.choice(date_range, p=date_weights): both ends and the days around the cutoff.
AedatValues(cfg) ==
    IF "aedat" \in wide
    THEN Ends(cfg.start_date, cfg.end_date)
         \cup ({CutoffDate(cfg) - 1, CutoffDate(cfg)} \cap (cfg.start_date..cfg.end_date))
    ELSE Ends(cfg.start_date, cfg.end_date) \cap {cfg.start_date}

\* bad_mask, impossible_mask and shiftable_mask for the order drawn as (aedat, vendor).
BadMask(cfg, vendor, aedat) == vendor.SPERR = "X" /\ aedat >= CutoffDate(cfg)

ImpossibleMask(cfg, vendor, aedat) ==
    BadMask(cfg, vendor, aedat) /\ vendor.ERDAT >= CutoffDate(cfg)

ShiftableMask(cfg, vendor, aedat) ==
    BadMask(cfg, vendor, aedat) /\ vendor.ERDAT < CutoffDate(cfg)

\* lower_bound and days_range of a shiftable order.
LowerBound(cfg, vendor) == Max(vendor.ERDAT, cfg.start_date)

DaysRange(cfg, vendor) == CutoffDate(cfg) - LowerBound(cfg, vendor)

\* (random_fractions * np.maximum(days_range, 0)).astype(int), fractions in [0, 1).
OffsetValues(cfg, vendor) ==
    LET m == Max(DaysRange(cfg, vendor), 0) IN
    IF "offset" \in wide THEN Ends(0, Max(m - 1, 0)) ELSE {0}

\* The order date after the repair of a shiftable order.
ShiftedDate(cfg, vendor, aedat, offset) ==
    IF ShiftableMask(cfg, vendor, aedat) THEN LowerBound(cfg, vendor) + offset ELSE aedat

\* safe_vendors: the positions of the vendors that are not blocked.
SafeVendors(vendors) == {i \in DOMAIN vendors : vendors[i].SPERR = ""}

EkkoDraws(cfg, vendors) ==
    LET n == cfg.num_pos IN
    UNION {
      {[aedat |-> a, lifnr |-> v, offset |-> o, safe |-> r, is_large |-> l, nb |-> b] :
          o \in Arrays([i \in 1..n |->
                         IF ShiftableMask(cfg, vendors[v[i]], a[i])
                         THEN OffsetValues(cfg, vendors[v[i]])
                         ELSE {0}]),
          r \in Arrays([i \in 1..n |->
                         IF ImpossibleMask(cfg, vendors[v[i]], a[i])
                         THEN SafeVendors(vendors)
                         ELSE {0}]),
          l \in [1..n -> Bernoulli(cfg.large_order_prob)],
          b \in [1..n -> IF "bsart" \in wide THEN BOOLEAN ELSE {TRUE}]}
      : a \in [1..n -> AedatValues(cfg)], v \in [1..n -> VendorChoices(vendors)]}

\* The PO headers for the draws d.
EkkoRows(cfg, vendors, d) ==
    [i \in 1..cfg.num_pos |->
        LET vendor == vendors[d.lifnr[i]] IN
        [EBELN    |-> <<"PO", i>>,
         BSART    |-> IF d.nb[i] THEN "NB" ELSE "FO",
         AEDAT    |-> ShiftedDate(cfg, vendor, d.aedat[i], d.offset[i]),
         LIFNR    |-> IF ImpossibleMask(cfg, vendor, d.aedat[i])
                      THEN vendors[d.safe[i]].LIFNR
                      ELSE vendor.LIFNR,
         is_large |-> d.is_large[i]]]

GenerateEkko(g) ==
    /\ CanCall(g, "ekko")
    /\ UNCHANGED dq_vars
    /\ UNCHANGED <<config, wide, fk_state, lfa1, mara, contracts, ekpo, ekbe>>
    /\ np_state' = Advance(np_state, "ekko")
    /\ IF lfa1[g] = None
       THEN /\ Raised(g, "ekko", "AssertionError")
            /\ UNCHANGED <<ekko, stream>>
       ELSE LET cfg == config[g]
                kn  == StreamKey("np", np_state, "ekko", 0)
                D   == EkkoDraws(cfg, Rows(lfa1[g]))
            IN \/ /\ \E d \in D :
                        /\ Replays(kn, d)
                        /\ ekko' = [ekko EXCEPT ![g] = Frame(EkkoRows(cfg, Rows(lfa1[g]), d))]
                        /\ stream' = (kn :> d) @@ stream
                  /\ Returned(g, "ekko")
               \/ \* np.random.choice(safe_vendors, ...) with no safe vendor to choose
                  /\ kn \notin DOMAIN stream
                  /\ SafeVendors(Rows(lfa1[g])) = {}
                  /\ \E i \in 1..cfg.num_pos, a \in AedatValues(cfg),
                        v \in VendorChoices(Rows(lfa1[g])) :
                        ImpossibleMask(cfg, Rows(lfa1[g])[v], a)
                  /\ Raised(g, "ekko", "ValueError")
                  /\ UNCHANGED <<ekko, stream>>

-----------------------------------------------------------------------------
(* _generate_ekpo                                                          *)

\* The item count clipped to [0, po_max_items].
ClipCountFromZero(cfg, x) == Min(cfg.po_max_items, Max(x, 0))

\* np.clip(np.random.lognormal(mu, sigma).astype(int), 1, po_max_items): a
\* log-normal draw is exp(mu) when sigma is 0 and any positive number otherwise.
ClipCount(cfg, x) == Min(cfg.po_max_items, Max(x, 1))

CountValues(cfg) ==
    IF cfg.po_item_count.sigma = 0
    THEN {ClipCount(cfg, cfg.po_item_count.median)}
    ELSE {ClipCount(cfg, x) : x \in Ends(0, cfg.po_max_items)}

\* items_df: np.repeat of the header columns, item_counts[k] rows for header k,
\* with EBELP = (cumcount + 1) * 10 inside each EBELN.
\* Item rows whose EBELN is numbered from 0 where the headers are numbered from 1.
RECURSIVE ItemRowsZeroBased(_, _, _)
ItemRowsZeroBased(headers, counts, k) ==
    IF k > Len(headers) THEN <<>>
    ELSE [j \in 1..counts[k] |->
            [EBELN    |-> <<"PO", k - 1>>,
             LIFNR    |-> headers[k].LIFNR,
             BSART    |-> headers[k].BSART,
             AEDAT    |-> headers[k].AEDAT,
             is_large |-> headers[k].is_large,
             EBELP    |-> j * 10]]
         \o ItemRowsZeroBased(headers, counts, k + 1)

RECURSIVE ItemRows(_, _, _)
ItemRows(headers, counts, k) ==
    IF k > Len(headers) THEN <<>>
    ELSE [j \in 1..counts[k] |->
            [EBELN    |-> headers[k].EBELN,
             LIFNR    |-> headers[k].LIFNR,
             BSART    |-> headers[k].BSART,
             AEDAT    |-> headers[k].AEDAT,
             is_large |-> headers[k].is_large,
             EBELP    |-> j * 10]]
         \o ItemRows(headers, counts, k + 1)

\* The columns of items_df when nb_rows is taken from it, and the columns of
\* valid_contracts handed to merge_asof.
NbColumns == {"EBELN", "LIFNR", "BSART", "AEDAT", "is_large", "EBELP", "MATNR", "KONNR"}

AsofRightColumns == {"LIFNR", "MATNR", "CONTRACT_PRICE", "VALID_FROM", "VALID_TO", "CONTRACT_ID"}

\* The columns of a pandas merge: a column of both sides that is not a key is
\* kept twice, with the suffixes "_x" and "_y".
MergeColumns(left, right, keys) ==
    LET both == (left \cap right) \ keys IN
    ((left \cup right) \ both) \cup {c \o "_x" : c \in both} \cup {c \o "_y" : c \in both}

\* The columns of a merge that keeps one column per name.
SelectedColumnsUnsuffixed == NbColumns \cup AsofRightColumns

SelectedColumns == MergeColumns(NbColumns, AsofRightColumns, {"LIFNR"})

\* nb_rows.sort_values("AEDAT"): the positions in items_df of the NB rows, by date
\* and, for equal dates, in their order in items_df.
RECURSIVE SortByDate(_, _)
SortByDate(items, pos) ==
    IF pos = {} THEN <<>>
    ELSE LET first == CHOOSE i \in pos :
                         \A j \in pos : items[i].AEDAT < items[j].AEDAT
                                        \/ (items[i].AEDAT = items[j].AEDAT /\ i <= j)
         IN <<first>> \o SortByDate(items, pos \ {first})

NbSorted(items) == SortByDate(items, {i \in DOMAIN items : items[i].BSART = "NB"})

\* merge_asof(..., by="LIFNR", direction="backward") for one left row: the position
\* of the contract of the row's vendor with the latest VALID_FROM that is not after
\* AEDAT (of several such, the last of the sorted contracts), or 0.
AsofMatch(item, contractrows) ==
    LET cand == {c \in DOMAIN contractrows :
                    /\ contractrows[c].LIFNR = item.LIFNR
                    /\ contractrows[c].VALID_FROM <= item.AEDAT}
    IN IF cand = {} THEN 0
       ELSE CHOOSE c \in cand :
               \A e \in cand : contractrows[e].VALID_FROM < contractrows[c].VALID_FROM
                               \/ (contractrows[e].VALID_FROM = contractrows[c].VALID_FROM /\ e <= c)

\* selected: row k of the merge result (index label k, a fresh RangeIndex) holds the
\* NB row NbSorted[k] and its contract; valid_mask keeps AEDAT <= VALID_TO.
SelectedMatch(items, contractrows, k) ==
    LET item == items[NbSorted(items)[k]]
        c    == AsofMatch(item, contractrows)
    IN IF c # 0 /\ item.AEDAT <= contractrows[c].VALID_TO THEN c ELSE 0

\* The contract whose MATNR, CONTRACT_PRICE and CONTRACT_ID the update
\* items_df.loc[selected.index, ...] = selected[...] writes into row i of items_df,
\* or 0: the update is made only if selected has a column named MATNR, and it
\* addresses items_df by the index labels of selected.
AssignedContract(items, contractrows, i) ==
    IF /\ "MATNR" \in SelectedColumns
       /\ i <= Len(NbSorted(items))
    THEN SelectedMatch(items, contractrows, i)
    ELSE 0

\* np.random.normal(1.0, price_volatility) in percent, one sigma either way.
NoiseValues(cfg) == Ends(100 - cfg.price_volatility, 100 + cfg.price_volatility)

\* np.random.uniform(1 - max_discount, 1 - min_discount) in percent.
PrefDiscountValues(cfg) ==
    Ends(100 - cfg.preferred_price_discount[2], 100 - cfg.preferred_price_discount[1])

\* np.random.normal(1.0, 0.01) in percent.
VarianceValues == IF "variance" \in wide THEN {99, 101} ELSE {100}

\* np.random.lognormal(1.3, 0.6).astype(int): any natural number, 3 at the median.
MengeValues == IF "menge" \in wide THEN {0, 1, 5} ELSE {3}

\* A lead time drawn from 0 on.
LeadTimeFromZero == IF "lead_time" \in wide THEN RandIntValues(0, 30) ELSE {0}

\* np.random.randint(5, 30): the lead time in days.
LeadTimeValues == IF "lead_time" \in wide THEN RandIntValues(5, 30) ELSE {5}

\* A spot price without the discount of preferred vendors.
SpotPriceUndiscounted(base_price, ktokk, noise, pref_discount) == (base_price \div 100) * noise

\* spot_price of a row: base price times noise, times the discount for PREF vendors.
SpotPrice(base_price, ktokk, noise, pref_discount) ==
    LET spot_price == (base_price \div 100) * noise IN
    IF ktokk = "PREF" THEN (spot_price \div 100) * pref_discount ELSE spot_price

\* NETPR: the contract price with its variance where CONTRACT_PRICE is set.
NetPrice(spot_price, contract_price, variance) ==
    IF contract_price # None THEN (contract_price[1] \div 100) * variance ELSE spot_price

\* qty_forced = (target_val / netpr_large).astype(int), target_val in currency units.
QtyForced(target_val, netpr) == TruncDiv(target_val * PriceUnit, netpr)

\* A large order whose quantity is overwritten by qty_forced.
QuantityOverwritten(is_large, menge, target_val, netpr) ==
    IF is_large THEN QtyForced(target_val, netpr) ELSE menge

\* MENGE of a row: the drawn quantity, raised to qty_forced on a large order.
Quantity(is_large, menge, target_val, netpr) ==
    IF is_large THEN Max(menge, QtyForced(target_val, netpr)) ELSE menge

\* A net value that counts a quantity of 0 as 1.
NetValueAtLeastOne(menge, netpr) == Max(menge, 1) * netpr

\* NETWR = MENGE * NETPR
NetValue(menge, netpr) == menge * netpr

EkpoDraws(cfg, materials, headers, contractrows) ==
    UNION {
      LET items == ItemRows(headers, cnt, 1)
          n     == Len(items)
      IN {[count |-> cnt, material |-> m, noise |-> z, pref_discount |-> p,
           variance |-> v, menge |-> q, target_val |-> t, lead_time |-> l] :
            m \in [1..n -> MaterialChoices(materials)],
            z \in [1..n -> NoiseValues(cfg)],
            p \in [1..n -> PrefDiscountValues(cfg)],
            v \in Arrays([i \in 1..n |->
                           IF AssignedContract(items, contractrows, i) # 0
                           THEN VarianceValues ELSE {100}]),
            q \in [1..n -> MengeValues],
            t \in Arrays([i \in 1..n |->
                           IF items[i].is_large
                           THEN Ends(cfg.large_order_value_range[1],
                                     cfg.large_order_value_range[2])
                           ELSE {0}]),
            l \in [1..n -> LeadTimeValues]}
      : cnt \in [1..Len(headers) -> CountValues(cfg)]}

\* The line items for the draws d.
EkpoRows(cfg, vendors, materials, headers, contractrows, d) ==
    LET items == ItemRows(headers, d.count, 1) IN
    [i \in 1..Len(items) |->
        LET c        == AssignedContract(items, contractrows, i)
            matnr    == IF c # 0 THEN contractrows[c].MATNR
                        ELSE materials[d.material[i]].MATNR
            material == CHOOSE m \in Range(materials) : m.MATNR = matnr
            cprice   == IF c # 0 THEN <<contractrows[c].CONTRACT_PRICE>> ELSE None
            spot     == SpotPrice(material.base_price,
                                  VendorOf(vendors, items[i].LIFNR).KTOKK,
                                  d.noise[i], d.pref_discount[i])
            netpr    == NetPrice(spot, cprice, d.variance[i])
            menge    == Quantity(items[i].is_large, d.menge[i], d.target_val[i], netpr)
        IN [EBELN |-> items[i].EBELN,
            EBELP |-> items[i].EBELP,
            MATNR |-> matnr,
            MENGE |-> menge,
            NETPR |-> netpr,
            NETWR |-> NetValue(menge, netpr),
            EINDT |-> items[i].AEDAT + d.lead_time[i],
            MATKL |-> material.MATKL,
            KONNR |-> IF c # 0 THEN contractrows[c].CONTRACT_ID ELSE None]]

GenerateEkpo(g) ==
    /\ CanCall(g, "ekpo")
    /\ UNCHANGED dq_vars
    /\ UNCHANGED <<config, wide, fk_state, lfa1, mara, contracts, ekko, ekbe>>
    /\ IF lfa1[g] = None \/ ekko[g] = None \/ mara[g] = None \/ contracts[g] = None
       THEN /\ Raised(g, "ekpo", "AssertionError")
            /\ UNCHANGED <<ekpo, np_state, stream>>
       ELSE LET cfg == config[g]
                kn  == StreamKey("np", np_state, "ekpo", 0)
            IN /\ np_state' = Advance(np_state, "ekpo")
               /\ IF Rows(mara[g]) = <<>> /\ Rows(ekko[g]) # <<>> /\ cfg.po_max_items > 0
                  THEN \* np.random.choice of a material with no material to choose
                       /\ Raised(g, "ekpo", "ValueError")
                       /\ UNCHANGED <<ekpo, stream>>
                  ELSE /\ \E d \in EkpoDraws(cfg, Rows(mara[g]), Rows(ekko[g]),
                                             Rows(contracts[g])) :
                            /\ Replays(kn, d)
                            /\ ekpo' = [ekpo EXCEPT ![g] =
                                   Frame(EkpoRows(cfg, Rows(lfa1[g]), Rows(mara[g]),
                                                  Rows(ekko[g]), Rows(contracts[g]), d))]
                            /\ stream' = (kn :> d) @@ stream
                       /\ Returned(g, "ekpo")

-----------------------------------------------------------------------------
(* _generate_ekbe                                                          *)

\* Series.round(0) of the quotient num / den (num >= 0, den > 0): to the nearest
\* integer, a tie to the even one.
RoundHalfEven(num, den) ==
    LET q == num \div den
        r == num % den
    IN IF 2 * r < den THEN q
       ELSE IF 2 * r > den THEN q + 1
       ELSE IF q % 2 = 0 THEN q ELSE q + 1

\* base_df: the line items with LIFNR and AEDAT of their header.
BaseRows(items, headers) ==
    [i \in DOMAIN items |->
        LET header == CHOOSE h \in Range(headers) : h.EBELN = items[i].EBELN IN
        [EBELN |-> items[i].EBELN, EBELP |-> items[i].EBELP, MENGE |-> items[i].MENGE,
         NETPR |-> items[i].NETPR, NETWR |-> items[i].NETWR, EINDT |-> items[i].EINDT,
         AEDAT |-> header.AEDAT, LIFNR |-> header.LIFNR]]

\* The rows of s at the positions in pos, in the order of s.
RECURSIVE Pick(_, _, _)
Pick(s, pos, k) ==
    IF k > Len(s) THEN <<>>
    ELSE (IF k \in pos THEN <<s[k]>> ELSE <<>>) \o Pick(s, pos, k + 1)

\* np.random.uniform(0.4, 0.6) in percent.
RatioValues == IF "split" \in wide THEN Ends(40, 59) ELSE {50}

\* MENGE of the first delivery: the share ratio1 of the quantity, rounded, at least 1.
Part1Menge(menge, ratio1) == Max(RoundHalfEven(menge * ratio1, 100), 1)

\* MENGE of the second delivery: the remainder.
Part2Menge(menge, ratio1) == menge - Part1Menge(menge, ratio1)

\* df_part1 and df_part2 for a split row.
Part1Row(row, ratio1) ==
    [row EXCEPT !.MENGE = Part1Menge(row.MENGE, ratio1),
                !.NETWR = Part1Menge(row.MENGE, ratio1) * row.NETPR]

Part2Row(row, ratio1) ==
    [row EXCEPT !.MENGE = Part2Menge(row.MENGE, ratio1),
                !.NETWR = Part2Menge(row.MENGE, ratio1) * row.NETPR]

\* gr_df = concat(df_single, df_part1, df_part2), df_part2 without the rows that
\* have nothing left.
GrRows(base, split, ratio1) ==
    LET n == Len(base)
        part1 == [i \in 1..n |-> Part1Row(base[i], ratio1[i])]
        part2 == [i \in 1..n |-> Part2Row(base[i], ratio1[i])]
    IN Pick(base, {i \in 1..n : ~split[i]}, 1)
       \o Pick(part1, {i \in 1..n : split[i]}, 1)
       \o Pick(part2, {i \in 1..n : split[i] /\ part2[i].MENGE > 0}, 1)

\* final_days = where(is_late, delay_days, early_days): a late delivery is 1..7,
\* 8..14 or 15..30 days late by its bucket, any other is 0..5 days early.
FinalDaysValues(cfg) ==
    IF "final_days" \in wide
    THEN RandIntValues(-5, 1)
         \cup (IF cfg.delivery_delay_probs[1] > 0 THEN RandIntValues(1, 8) ELSE {})
         \cup (IF cfg.delivery_delay_probs[2] > 0 THEN RandIntValues(8, 15) ELSE {})
         \cup (IF cfg.delivery_delay_probs[3] > 0 THEN RandIntValues(15, 31) ELSE {})
    ELSE {0}

\* ACTUAL_DELIVERY_DATE: EINDT plus final_days, not before AEDAT.
ActualDeliveryDate(row, final_days) ==
    LET actual == row.EINDT + final_days IN
    IF actual < row.AEDAT THEN row.AEDAT ELSE actual

\* np.clip(np.random.normal(0, 0.01), -0.019, 0.019) in per mille.
PriceNoiseValues == IF "noise" \in wide THEN {-19, 0, 19} ELSE {0}

\* An invoice amount whose noise is not clipped to 1.9%: it can be twice as large.
InvoiceAmountUnclipped(dmbtr, noise) ==
    LET c == 1000 * 100
        q == dmbtr \div c
        r == dmbtr % c
    IN (q * (1000 + 2 * noise) + RoundHalfEven(r * (1000 + 2 * noise), c)) * 100

\* (DMBTR * price_noise).round(2): the amount in 1/10000 units rounded to cents.
InvoiceAmount(dmbtr, noise) ==
    LET c == 1000 * 100
        q == dmbtr \div c
        r == dmbtr % c
    IN (q * (1000 + noise) + RoundHalfEven(r * (1000 + noise), c)) * 100

\* has_invoice, and processing_time and noise for the receipts that have an invoice.
InvoiceDraws(cfg, n_gr) ==
    LET Days == RandIntValues(cfg.invoice_processing_range[1], cfg.invoice_processing_range[2]) IN
    UNION {
      {[has_invoice |-> hi, processing_time |-> pt, noise |-> nz] :
          pt \in Arrays([i \in 1..n_gr |-> IF hi[i] THEN Days ELSE {0}]),
          nz \in Arrays([i \in 1..n_gr |-> IF hi[i] THEN PriceNoiseValues ELSE {0}])}
      : hi \in [1..n_gr -> Bernoulli(cfg.invoice_generation_rate)]}

EkbeDraws(cfg, base) ==
    LET n == Len(base) IN
    UNION {
      LET n_gr == Len(GrRows(base, sp, ra)) IN
      {[split |-> sp, ratio1 |-> ra, final_days |-> fd, has_invoice |-> iv.has_invoice,
        processing_time |-> iv.processing_time, noise |-> iv.noise] :
          fd \in [1..n_gr -> FinalDaysValues(cfg)],
          iv \in InvoiceDraws(cfg, n_gr)}
      : sp \in [1..n -> IF "split" \in wide THEN BOOLEAN ELSE {FALSE}],
        ra \in [1..n -> RatioValues]}

\* gr_df with its dates, and ir_df: the invoice of every receipt that has one.
GrEvents(base, d) ==
    LET gr == GrRows(base, d.split, d.ratio1) IN
    [i \in DOMAIN gr |->
        [EBELN |-> gr[i].EBELN, EBELP |-> gr[i].EBELP, BEWTP |-> "E",
         BUDAT |-> ActualDeliveryDate(gr[i], d.final_days[i]),
         MENGE |-> gr[i].MENGE, DMBTR |-> gr[i].NETWR,
         ACTUAL_DELIVERY_DATE |-> <<ActualDeliveryDate(gr[i], d.final_days[i])>>]]

\* Invoices dated the processing time before their receipt.
IrEventsBackdated(base, d) ==
    LET gr == GrEvents(base, d)
        ir == [i \in DOMAIN gr |->
                 [gr[i] EXCEPT !.BEWTP = "Q",
                               !.ACTUAL_DELIVERY_DATE = None,
                               !.BUDAT = @ - d.processing_time[i],
                               !.DMBTR = InvoiceAmount(@, d.noise[i])]]
    IN Pick(ir, {i \in DOMAIN gr : d.has_invoice[i]}, 1)

IrEvents(base, d) ==
    LET gr == GrEvents(base, d)
        ir == [i \in DOMAIN gr |->
                 [gr[i] EXCEPT !.BEWTP = "Q",
                               !.ACTUAL_DELIVERY_DATE = None,
                               !.BUDAT = @ + d.processing_time[i],
                               !.DMBTR = InvoiceAmount(@, d.noise[i])]]
    IN Pick(ir, {i \in DOMAIN gr : d.has_invoice[i]}, 1)

\* Row a is before row b in sort_values(by=["EBELN", "EBELP", "BUDAT"]).
EventBefore(a, b) ==
    \/ a.EBELN[2] < b.EBELN[2]
    \/ a.EBELN = b.EBELN /\ a.EBELP < b.EBELP
    \/ a.EBELN = b.EBELN /\ a.EBELP = b.EBELP /\ a.BUDAT < b.BUDAT

\* The sort of a table on several columns keeps the order of equal rows.
RECURSIVE SortEvents(_, _)
SortEvents(events, pos) ==
    IF pos = {} THEN <<>>
    ELSE LET first == CHOOSE i \in pos :
                         \A j \in pos \ {i} : EventBefore(events[i], events[j])
                                              \/ (~EventBefore(events[j], events[i]) /\ i < j)
         IN <<events[first]>> \o SortEvents(events, pos \ {first})

\* The history for the draws d: sorted, then numbered by BELNR.
EkbeRows(base, d) ==
    LET events == GrEvents(base, d) \o IrEvents(base, d)
        sorted == SortEvents(events, DOMAIN events)
    IN [i \in DOMAIN sorted |->
          [EBELN |-> sorted[i].EBELN, EBELP |-> sorted[i].EBELP, BEWTP |-> sorted[i].BEWTP,
           BUDAT |-> sorted[i].BUDAT, MENGE |-> sorted[i].MENGE, DMBTR |-> sorted[i].DMBTR,
           BELNR |-> <<"5", i>>,
           ACTUAL_DELIVERY_DATE |-> sorted[i].ACTUAL_DELIVERY_DATE]]

GenerateEkbe(g) ==
    /\ CanCall(g, "ekbe")
    /\ UNCHANGED dq_vars
    /\ UNCHANGED <<config, wide, fk_state, lfa1, mara, contracts, ekko, ekpo>>
    /\ IF ekpo[g] = None \/ ekko[g] = None \/ lfa1[g] = None
       THEN /\ Raised(g, "ekbe", "AssertionError")
            /\ UNCHANGED <<ekbe, np_state, stream>>
       ELSE LET cfg  == config[g]
                kn   == StreamKey("np", np_state, "ekbe", 0)
                base == BaseRows(Rows(ekpo[g]), Rows(ekko[g]))
            IN /\ np_state' = Advance(np_state, "ekbe")
               /\ \E d \in EkbeDraws(cfg, base) :
                     /\ Replays(kn, d)
                     /\ ekbe' = [ekbe EXCEPT ![g] = Frame(EkbeRows(base, d))]
                     /\ stream' = (kn :> d) @@ stream
               /\ Returned(g, "ekbe")

-----------------------------------------------------------------------------
(* _cleanup_hidden_columns and generate_all                                *)

\* A drop that leaves every column in place.
KeepColumns(rows, cols) == rows

\* DataFrame.drop(columns=existing): the rows without the columns in cols.
DropColumns(rows, cols) ==
    [i \in DOMAIN rows |-> [c \in (DOMAIN rows[i]) \ cols |-> rows[i][c]]]

CleanTable(frame, cols) ==
    IF frame = None THEN None ELSE Frame(DropColumns(Rows(frame), cols))

\* The last step of generate_all, after the six stages returned.
CleanupHiddenColumns(g) ==
    /\ g \in Gens
    /\ UNCHANGED dq_vars
    /\ raised = NoException
    /\ phase[g] = "built"
    /\ Unset(g) = {}
    /\ lfa1' = [lfa1 EXCEPT ![g] = CleanTable(@, {"spend_weight", "perf_bias"})]
    /\ mara' = [mara EXCEPT ![g] = CleanTable(@, {"base_price"})]
    /\ ekko' = [ekko EXCEPT ![g] = CleanTable(@, {"is_large"})]
    /\ phase' = [phase EXCEPT ![g] = "done"]
    /\ last_call' = <<g, "cleanup">>
    /\ UNCHANGED <<config, wide, raised, np_state, fk_state, stream, contracts, ekpo, ekbe>>

-----------------------------------------------------------------------------
(* The quality engine's view of a data set (src/src/quality/core.py).      *)

\* DQCore.run_business_logic, check 5: the headers of blocked vendors dated after
\* the latest order date minus 90 days.
Suspicious(vendors, headers) ==
    IF headers = <<>> THEN {}
    ELSE LET blocked_lifnr == {v.LIFNR : v \in {w \in Range(vendors) : w.SPERR = "X"}}
             sim_end == CHOOSE a \in {h.AEDAT : h \in Range(headers)} :
                           \A h \in Range(headers) : h.AEDAT <= a
             cutoff  == sim_end - 90
         IN {i \in DOMAIN headers :
                headers[i].LIFNR \in blocked_lifnr /\ headers[i].AEDAT > cutoff}

\* The values of column col in the rows of a table.
Column(frame, col) == {r[col] : r \in Range(Rows(frame))}

\* check_fk: every value of src_c in the source table is a value of tgt_c in the target.
CheckFk(src, src_c, tgt, tgt_c) ==
    src # None => (tgt # None /\ Column(src, src_c) \subseteq Column(tgt, tgt_c))

\* The (EBELN, EBELP) keys of a table.
ItemKeys(frame) == {<<r.EBELN, r.EBELP>> : r \in Range(Rows(frame))}

-----------------------------------------------------------------------------
(* The quality engine, DQCore of src/src/quality/core.py.                  *)
(*                                                                         *)
(* A loaded table (a DataFrame read from a parquet file) is a record:      *)
(* columns is the set of its column names, rows the sequence of its rows   *)
(* (a row holds the columns the checks compute with), and flaws holds what *)
(* the schema checks find in the cells without computing with them: the    *)
(* pair <<"null", c>> when column c has a null, <<"long", c>> when a       *)
(* string of c exceeds the length limit, <<"iso", c>> when a value of c is *)
(* not three capital letters, <<"dtype", c>> when c is not a datetime      *)
(* column.  A day number counts from 2020-01-01.  A check record keeps the *)
(* category, name, status and severity of the logged entry; the message    *)
(* and the examples are left out.                                          *)

REQUIRED_TABLES == <<"LFA1", "MARA", "EKKO", "EKPO", "EKBE", "VENDOR_CONTRACTS">>

\* SCHEMA_RULES: the required columns in order, the length-constrained columns,
\* the ISO currency column, and the required columns whose name contains "DAT",
\* "TIME" or "VALID_".
SCHEMA_RULES ==
    [LFA1 |-> [required |-> <<"LIFNR", "NAME1", "LAND1", "ORT01", "KTOKK", "ERDAT",
                              "STRAS", "TELF1", "SMTP_ADDR", "SPERR">>,
               constraints |-> <<"LIFNR", "LAND1">>, iso_currency |-> <<>>,
               date_cols |-> <<"ERDAT">>],
     MARA |-> [required |-> <<"MATNR", "MAKTX", "MTART", "MATKL", "MEINS", "ERSDA",
                              "BRGEW", "NTGEW">>,
               constraints |-> <<"MATNR", "MATKL">>, iso_currency |-> <<>>,
               date_cols |-> <<>>],
     EKKO |-> [required |-> <<"EBELN", "BUKRS", "BSART", "AEDAT", "LIFNR", "WAERS",
                              "EKORG", "EKGRP", "BEDAT">>,
               constraints |-> <<"EBELN", "WAERS">>, iso_currency |-> <<"WAERS">>,
               date_cols |-> <<"AEDAT", "BEDAT">>],
     EKPO |-> [required |-> <<"EBELN", "EBELP", "MATNR", "MENGE", "MEINS", "NETPR",
                              "NETWR", "EINDT", "WERKS", "MATKL">>,
               constraints |-> <<"EBELN">>, iso_currency |-> <<>>,
               date_cols |-> <<>>],
     EKBE |-> [required |-> <<"EBELN", "EBELP", "BEWTP", "DMBTR", "BUDAT", "MENGE",
                              "BELNR">>,
               constraints |-> <<"EBELN">>, iso_currency |-> <<>>,
               date_cols |-> <<"BUDAT">>],
     VENDOR_CONTRACTS |->
              [required |-> <<"CONTRACT_ID", "LIFNR", "MATNR", "CONTRACT_PRICE",
                              "VALID_FROM", "VALID_TO", "VOLUME_COMMITMENT",
                              "CONTRACT_TYPE">>,
               constraints |-> <<"LIFNR">>, iso_currency |-> <<>>,
               date_cols |-> <<"VALID_FROM", "VALID_TO">>]]

\* DQCore.__init__: the result the engine starts with.
FreshResults == [score |-> 100, checks |-> <<>>, profile |-> {}]

\* The arguments of one log call, and an exception raised in place of one.
Check(category, name, status, severity) ==
    [category |-> category, name |-> name, status |-> status, severity |-> severity]

Throw(e) == [exception |-> e]

IsThrow(ev) == "exception" \in DOMAIN ev

\* A penalty that a severity other than Critical and Warning also carries.
PenaltyForAnySeverity(severity) ==
    IF severity = "Critical" THEN 15 ELSE IF severity = "Warning" THEN 5 ELSE 2

\* penalty = 15 if severity == "Critical" else 5 if severity == "Warning" else 0
Penalty(severity) ==
    IF severity = "Critical" THEN 15 ELSE IF severity = "Warning" THEN 5 ELSE 0

\* DQCore.log: the results after logging check record c.
Log(res, c) ==
    [res EXCEPT
        !.score  = IF c.status = "FAIL" THEN Max(0, @ - Penalty(c.severity))
                   ELSE IF c.status = "WARN" THEN Max(0, @ - 2)
                   ELSE @,
        !.checks = Append(@, c)]

\* The concatenation of the sequences of a sequence.
RECURSIVE Flatten(_)
Flatten(ss) == IF ss = <<>> THEN <<>> ELSE Flatten(SubSeq(ss, 1, Len(ss) - 1)) \o ss[Len(ss)]

\* What a stage does, given the log calls and exceptions its code would make in
\* order: the calls before the first exception happen, the exception leaves it.
RECURSIVE Logged(_)
Logged(events) ==
    IF events = <<>> \/ IsThrow(Head(events)) THEN <<>>
    ELSE <<Head(events)>> \o Logged(Tail(events))

Thrown(events) ==
    IF \E i \in DOMAIN events : IsThrow(events[i])
    THEN events[CHOOSE i \in DOMAIN events :
                    IsThrow(events[i]) /\ \A j \in 1..(i - 1) : ~IsThrow(events[j])].exception
    ELSE NoException

\* a and then b: the code of b runs only if a raised nothing.
Then(a, b) == IF Thrown(a) # NoException THEN a ELSE a \o b

RECURSIVE LogAll(_, _)
LogAll(res, cs) == IF cs = <<>> THEN res ELSE LogAll(Log(res, Head(cs)), Tail(cs))

\* The events of code that reads the columns cols of table df and then makes the
\* calls of events: a KeyError if one of the columns does not exist.
Reading(df, cols, events) ==
    IF cols \subseteq df.columns THEN events ELSE <<Throw("KeyError")>>

\* run_schema_checks for one table.
SchemaEvents(table, df) ==
    LET rules == SCHEMA_RULES[table]
        Fail(kind, col, severity) == <<Check("Schema", <<table, kind, col>>, "FAIL", severity)>>
        Required(col) ==
            IF col \notin df.columns THEN Fail("Missing", col, "Critical")
            ELSE IF <<"null", col>> \in df.flaws THEN Fail("Nulls", col, "Critical")
            ELSE <<>>
        Length(col) ==
            IF col \in df.columns /\ <<"long", col>> \in df.flaws
            THEN Fail("Length", col, "Warning") ELSE <<>>
        Iso(col) ==
            Reading(df, {col},
                    IF <<"iso", col>> \in df.flaws
                    THEN <<Check("Schema", <<"ISO Currency">>, "FAIL", "Info")>> ELSE <<>>)
        Dtype(col) ==
            IF col \in df.columns /\ <<"dtype", col>> \in df.flaws
            THEN Fail("Type", col, "Warning") ELSE <<>>
        Delivery ==
            IF table = "EKBE" /\ "ACTUAL_DELIVERY_DATE" \in df.columns
            THEN Reading(df, {"BEWTP"},
                    IF \E r \in Range(df.rows) : r.BEWTP = "E" /\ r.ACTUAL_DELIVERY_DATE = None
                    THEN Fail("Completeness", "ACTUAL_DELIVERY_DATE", "Critical") ELSE <<>>)
            ELSE <<>>
    IN Flatten([i \in DOMAIN rules.required |-> Required(rules.required[i])])
       \o Flatten([i \in DOMAIN rules.constraints |-> Length(rules.constraints[i])])
       \o Flatten([i \in DOMAIN rules.iso_currency |-> Iso(rules.iso_currency[i])])
       \o Flatten([i \in DOMAIN rules.date_cols |-> Dtype(rules.date_cols[i])])
       \o Delivery

RECURSIVE SchemaFrom(_, _)
SchemaFrom(tabs, i) ==
    IF i > Len(REQUIRED_TABLES) THEN <<>>
    ELSE Then(SchemaEvents(REQUIRED_TABLES[i], tabs[REQUIRED_TABLES[i]]), SchemaFrom(tabs, i + 1))

RunSchemaChecks(tabs) == SchemaFrom(tabs, 1)

\* check_fk of run_integrity_checks.
FkEvents(tabs, src_t, src_c, tgt_t, tgt_c, label) ==
    Reading(tabs[src_t], {src_c}, Reading(tabs[tgt_t], {tgt_c},
        IF CheckFk(Frame(tabs[src_t].rows), src_c, Frame(tabs[tgt_t].rows), tgt_c)
        THEN <<Check("Integrity", <<label>>, "PASS", "Info")>>
        ELSE <<Check("Integrity", <<label>>, "FAIL", "Critical")>>))

RunIntegrityChecks(tabs) ==
    Then(FkEvents(tabs, "EKPO", "EBELN", "EKKO", "EBELN", "EKPO->EKKO"),
    Then(FkEvents(tabs, "EKKO", "LIFNR", "LFA1", "LIFNR", "EKKO->LFA1"),
    Then(FkEvents(tabs, "EKPO", "MATNR", "MARA", "MATNR", "EKPO->MARA"),
    Then(FkEvents(tabs, "VENDOR_CONTRACTS", "LIFNR", "LFA1", "LIFNR", "CONTRACTS->LFA1"),
    Then(FkEvents(tabs, "VENDOR_CONTRACTS", "MATNR", "MARA", "MATNR", "CONTRACTS->MARA"),
    Reading(tabs["EKBE"], {"EBELN", "EBELP"}, Reading(tabs["EKPO"], {"EBELN", "EBELP"},
        IF ItemKeys(Frame(tabs["EKBE"].rows)) \subseteq ItemKeys(Frame(tabs["EKPO"].rows))
        THEN <<Check("Integrity", <<"EKBE->EKPO">>, "PASS", "Info")>>
        ELSE <<Check("Integrity", <<"EKBE->EKPO">>, "FAIL", "Critical")>>)))))))

\* PASS with the default severity, or FAIL with the given one.
Verdict(category, name, failed, severity) ==
    <<IF failed THEN Check(category, <<name>>, "FAIL", severity)
      ELSE Check(category, <<name>>, "PASS", "Info")>>

Abs(x) == IF x < 0 THEN -x ELSE x

\* lo <= num / den <= hi for lo and hi in percent, as floating point decides it:
\* a quotient by zero is nan or infinite and lies in no interval.
RatioWithin(num, den, lo, hi) ==
    IF den > 0 THEN lo * den <= 100 * num /\ 100 * num <= hi * den
    ELSE IF den < 0 THEN lo * den >= 100 * num /\ 100 * num >= hi * den
    ELSE FALSE

\* The positions of the goods receipts and of the invoices that the invoice check
\* of run_business_logic pairs: by PAIR_ID if the column exists, else by their rank
\* among the documents of the same kind and line in (BUDAT, BELNR) order.
MatchedPairs(ekbe_df) ==
    LET rows == ekbe_df.rows
        SameLine(i, j) == rows[i].EBELN = rows[j].EBELN /\ rows[i].EBELP = rows[j].EBELP
        Before(j, i) ==
            \/ rows[j].BUDAT < rows[i].BUDAT
            \/ rows[j].BUDAT = rows[i].BUDAT /\ rows[j].BELNR < rows[i].BELNR
            \/ rows[j].BUDAT = rows[i].BUDAT /\ rows[j].BELNR = rows[i].BELNR /\ j < i
        seq(i) == Cardinality({j \in DOMAIN rows :
                     rows[j].BEWTP = rows[i].BEWTP /\ SameLine(i, j) /\ Before(j, i)})
    IN {p \in (DOMAIN rows) \X (DOMAIN rows) :
           /\ rows[p[1]].BEWTP = "E" /\ rows[p[2]].BEWTP = "Q" /\ SameLine(p[1], p[2])
           /\ IF "PAIR_ID" \in ekbe_df.columns
              THEN rows[p[1]].PAIR_ID = rows[p[2]].PAIR_ID
              ELSE seq(p[1]) = seq(p[2])}

\* bad_amts: the pairs whose amounts differ by more than 2% of the receipt's and by
\* more than 0.01 (amounts are whole numbers here, so by 1 or more).
BadAmounts(ekbe_df) ==
    {p \in MatchedPairs(ekbe_df) :
        LET gr == ekbe_df.rows[p[1]].DMBTR
            inv == ekbe_df.rows[p[2]].DMBTR
        IN Abs(gr - inv) * 100 > gr * 2 /\ Abs(gr - inv) > 0}

\* The check without its filter ekpo["KONNR"].notna(): every line is merged.
CheckContractPriceComplianceAllLines(tabs) ==
    LET ekpo_df == tabs["EKPO"]
        contracts_df == tabs["VENDOR_CONTRACTS"]
        name == <<"Contract Price Consistency">>
        contract_items == DOMAIN ekpo_df.rows
        found == {p \in contract_items \X (DOMAIN contracts_df.rows) :
                     contracts_df.rows[p[2]].CONTRACT_ID = ekpo_df.rows[p[1]].KONNR}
        Deviates(p) ==
            LET price == contracts_df.rows[p[2]].CONTRACT_PRICE
                gap   == Abs(ekpo_df.rows[p[1]].NETPR - price)
            IN IF price > 0 THEN gap * 100 > 5 * price ELSE price = 0 /\ gap > 0
    IN IF "KONNR" \notin ekpo_df.columns THEN <<Check("Logic", name, "WARN", "Info")>>
       ELSE IF contract_items = {} THEN <<Check("Logic", name, "PASS", "Info")>>
       ELSE Reading(contracts_df, {"CONTRACT_ID", "CONTRACT_PRICE"},
                IF found = {} THEN <<Check("Logic", name, "WARN", "Info")>>
                ELSE Reading(ekpo_df, {"NETPR"},
                         IF \E p \in found : Deviates(p)
                         THEN <<Check("Logic", name, "FAIL", "Critical")>>
                         ELSE <<Check("Logic", name, "PASS", "Info")>>))

\* check_contract_price_compliance
CheckContractPriceCompliance(tabs) ==
    LET ekpo_df == tabs["EKPO"]
        contracts_df == tabs["VENDOR_CONTRACTS"]
        name == <<"Contract Price Consistency">>
        contract_items == {i \in DOMAIN ekpo_df.rows : ekpo_df.rows[i].KONNR # None}
        found == {p \in contract_items \X (DOMAIN contracts_df.rows) :
                     contracts_df.rows[p[2]].CONTRACT_ID = ekpo_df.rows[p[1]].KONNR}
        Deviates(p) ==
            LET price == contracts_df.rows[p[2]].CONTRACT_PRICE
                gap   == Abs(ekpo_df.rows[p[1]].NETPR - price)
            IN IF price > 0 THEN gap * 100 > 5 * price ELSE price = 0 /\ gap > 0
    IN IF "KONNR" \notin ekpo_df.columns THEN <<Check("Logic", name, "WARN", "Info")>>
       ELSE IF contract_items = {} THEN <<Check("Logic", name, "PASS", "Info")>>
       ELSE Reading(contracts_df, {"CONTRACT_ID", "CONTRACT_PRICE"},
               IF found = {} THEN <<Check("Logic", name, "WARN", "Info")>>
               ELSE Reading(ekpo_df, {"NETPR"},
                       IF \E p \in found : Deviates(p)
                       THEN <<Check("Logic", name, "FAIL", "Critical")>>
                       ELSE <<Check("Logic", name, "PASS", "Info")>>))

\* check_contract_price_compliance stores the variances in the profile when it fails.
StoresPriceVariance(tabs) ==
    \E i \in DOMAIN CheckContractPriceCompliance(tabs) :
        /\ ~IsThrow(CheckContractPriceCompliance(tabs)[i])
        /\ CheckContractPriceCompliance(tabs)[i].status = "FAIL"

RunBusinessLogic(tabs) ==
    LET ekpo_df == tabs["EKPO"]
        ekko_df == tabs["EKKO"]
        contracts_df == tabs["VENDOR_CONTRACTS"]
        ekbe_df == tabs["EKBE"]
        lfa1_df == tabs["LFA1"]
        NetValueEvents ==
            Reading(ekpo_df, {"MENGE", "NETPR", "NETWR"},
                Verdict("Logic", "Net Value",
                        \E r \in Range(ekpo_df.rows) :
                            Abs(r.NETWR - r.MENGE * r.NETPR) * 100 > r.NETWR,
                        "Warning"))
        DeliveryEvents ==
            Reading(ekko_df, {"EBELN", "AEDAT"}, Reading(ekpo_df, {"EBELN", "EINDT"},
                IF "AEDAT" \in ekpo_df.columns THEN <<Throw("KeyError")>>
                ELSE Verdict("Logic", "Delivery Dates",
                             \E r \in Range(ekpo_df.rows), h \in Range(ekko_df.rows) :
                                 r.EBELN = h.EBELN /\ r.EINDT < h.AEDAT,
                             "Info")))
        ContractEvents ==
            Reading(contracts_df, {"VALID_TO", "VALID_FROM"},
                IF \E c \in Range(contracts_df.rows) : c.VALID_TO <= c.VALID_FROM
                THEN <<Check("Logic", <<"Contract Dates">>, "FAIL", "Critical")>>
                ELSE <<>>)
        InvoiceEvents ==
            Reading(ekbe_df, {"BEWTP", "EBELN", "EBELP", "BUDAT", "DMBTR"},
                Reading(ekbe_df, IF "PAIR_ID" \in ekbe_df.columns THEN {} ELSE {"BELNR"},
                    Verdict("Logic", "Invoice Amounts", BadAmounts(ekbe_df) # {}, "Warning")
                    \o Verdict("Logic", "Invoice Sequence",
                               \E p \in MatchedPairs(ekbe_df) :
                                   ekbe_df.rows[p[2]].BUDAT < ekbe_df.rows[p[1]].BUDAT,
                               "Warning")))
        BlockedEvents ==
            Reading(lfa1_df, {"SPERR", "LIFNR"}, Reading(ekko_df, {"AEDAT", "LIFNR"},
                Verdict("Logic", "Blocked Vendors",
                        Suspicious(lfa1_df.rows, ekko_df.rows) # {}, "Critical")))
    IN Then(NetValueEvents, Then(DeliveryEvents, Then(ContractEvents, Then(InvoiceEvents,
       Then(BlockedEvents, CheckContractPriceCompliance(tabs))))))

\* The sum of the k largest values of function f over the keys in S.
RECURSIVE TopSum(_, _, _)
TopSum(f, S, k) ==
    IF k <= 0 \/ S = {} THEN 0
    ELSE LET top == CHOOSE x \in S : \A y \in S : f[y] <= f[x]
         IN f[top] + TopSum(f, S \ {top}, k - 1)

\* The first day after the years 2020 to 2024, which hold two leap years.
DaysTo2025 == 5 * 365 + 2

\* value_counts(normalize=True) > 0.40 for some MATKL value of the material rows.
Imbalanced(materials) ==
    \E c \in {m.MATKL : m \in Range(materials)} :
        Cardinality({i \in DOMAIN materials : materials[i].MATKL = c}) * 100
            > 40 * Len(materials)

RunStatsAndCompleteness(tabs) ==
    LET ekpo_df == tabs["EKPO"]
        ekbe_df == tabs["EKBE"]
        ekko_df == tabs["EKKO"]
        mara_df == tabs["MARA"]
        Warned(name, passed) ==
            <<Check("Stats", <<name>>, IF passed THEN "PASS" ELSE "WARN", "Info")>>
        \* ekpo_df.merge(ekko_df, on="EBELN")["LIFNR"]: one label per matching header, in
        \* item order; groupby aligns label k with item k and drops items without one.
        labels == Flatten([i \in DOMAIN ekpo_df.rows |->
                     Flatten([j \in DOMAIN ekko_df.rows |->
                        IF ekko_df.rows[j].EBELN = ekpo_df.rows[i].EBELN
                        THEN <<ekko_df.rows[j].LIFNR>> ELSE <<>>])])
        grouped == {i \in DOMAIN ekpo_df.rows : i <= Len(labels)}
        spend == [v \in {labels[i] : i \in grouped} |->
                     SumOver([i \in grouped |-> IF labels[i] = v THEN ekpo_df.rows[i].NETWR ELSE 0],
                             grouped)]
        top_20_count == Cardinality(DOMAIN spend) \div 5
        ParetoEvents ==
            Reading(ekpo_df, {"EBELN", "NETWR"}, Reading(ekko_df, {"EBELN", "LIFNR"},
                IF "LIFNR" \in ekpo_df.columns THEN <<Throw("KeyError")>>
                ELSE Warned("Pareto Dist",
                            RatioWithin(TopSum(spend, DOMAIN spend, top_20_count),
                                        SumOver(spend, DOMAIN spend), 70, 90))))
        ComplianceEvents ==
            Reading(ekko_df, {"BSART"},
                IF ekko_df.rows = <<>> THEN <<Throw("ZeroDivisionError")>>
                ELSE Warned("Contract Compliance",
                            RatioWithin(Cardinality({i \in DOMAIN ekko_df.rows :
                                                        ekko_df.rows[i].BSART = "NB"}),
                                        Len(ekko_df.rows), 60, 80)))
        grs == {p \in (DOMAIN ekbe_df.rows) \X (DOMAIN ekpo_df.rows) :
                   /\ ekbe_df.rows[p[1]].BEWTP = "E"
                   /\ ekbe_df.rows[p[1]].EBELN = ekpo_df.rows[p[2]].EBELN
                   /\ ekbe_df.rows[p[1]].EBELP = ekpo_df.rows[p[2]].EBELP}
        LateEvents ==
            Reading(ekbe_df, {"BEWTP", "EBELN", "EBELP", "BUDAT"},
                Reading(ekpo_df, {"EBELN", "EBELP", "EINDT"},
                    IF grs = {} THEN <<Throw("ZeroDivisionError")>>
                    ELSE Warned("Late Delivery Rate",
                                RatioWithin(Cardinality({p \in grs :
                                                ekbe_df.rows[p[1]].BUDAT > ekpo_df.rows[p[2]].EINDT}),
                                            Cardinality(grs), 20, 30))))
        gr == Cardinality({i \in DOMAIN ekbe_df.rows : ekbe_df.rows[i].BEWTP = "E"})
        ir == Cardinality({i \in DOMAIN ekbe_df.rows : ekbe_df.rows[i].BEWTP = "Q"})
        RatioEvents == Warned("GR/IR Ratio", gr > 0 /\ 10 * ir >= 9 * gr /\ 10 * ir <= 11 * gr)
        \* No value of a group of at most ten lies more than three standard deviations
        \* from the group's mean, and the tables here hold fewer rows than that.
        OutlierEvents ==
            IF "MATKL" \in ekpo_df.columns /\ ekpo_df.rows # <<>>
            THEN Reading(ekpo_df, {"NETPR"}, Warned("Price Outliers", TRUE))
            ELSE Warned("Price Outliers", TRUE)
        BalanceEvents ==
            Reading(mara_df, {"MATKL"},
                Verdict("Completeness", "Material Balance", Imbalanced(mara_df.rows), "Warning"))
        EmptyEvents ==
            Reading(ekko_df, {"EBELN"}, Reading(ekpo_df, {"EBELN"},
                Verdict("Completeness", "Empty POs",
                        \E h \in Range(ekko_df.rows) :
                            \A r \in Range(ekpo_df.rows) : r.EBELN # h.EBELN,
                        "Warning")))
        CoverageEvents ==
            Reading(ekpo_df, {"EBELN", "EBELP"}, Reading(ekbe_df, {"BEWTP", "EBELN", "EBELP"},
                IF ekpo_df.rows = <<>> THEN <<Throw("ZeroDivisionError")>>
                ELSE Verdict("Completeness", "GR Coverage",
                             Cardinality({<<ekpo_df.rows[p[2]].EBELN, ekpo_df.rows[p[2]].EBELP>> :
                                             p \in grs}) < Len(ekpo_df.rows),
                             "Critical")))
        \* The year of no date (NaT) is not a number and lies in no range.
        RangeEvents ==
            Reading(ekko_df, {"AEDAT"},
                Verdict("Completeness", "Date Range",
                        \/ ekko_df.rows = <<>>
                        \/ \E h \in Range(ekko_df.rows) : h.AEDAT < 0 \/ h.AEDAT >= DaysTo2025,
                        "Info"))
    IN Then(ParetoEvents, Then(ComplianceEvents, Then(LateEvents, Then(RatioEvents,
       Then(OutlierEvents, Then(BalanceEvents, Then(EmptyEvents, Then(CoverageEvents,
       RangeEvents))))))))

\* pd.read_parquet returns a table for the file of table t.
Readable(fs, t) == t \in DOMAIN fs /\ "rows" \in DOMAIN fs[t]

\* A load_data that skips the files it cannot read.
LoadDataSkipping(fs, tabs, res) ==
    [ok |-> TRUE, data |-> tabs, results |-> res]

\* load_data: whether it returns True, and self.data and self.results after it.
LoadData(fs, tabs, res) ==
    LET bad    == {i \in DOMAIN REQUIRED_TABLES : ~Readable(fs, REQUIRED_TABLES[i])}
        read   == {REQUIRED_TABLES[i] : i \in {j \in DOMAIN REQUIRED_TABLES :
                                                  \A b \in bad : j < b}}
        loaded == [t \in read \cup DOMAIN tabs |-> IF t \in read THEN fs[t] ELSE tabs[t]]
        counted == [res EXCEPT !.profile = @ \cup {"record_counts"}]
    IN IF bad # {} THEN [ok |-> FALSE, data |-> loaded, results |-> res]
       ELSE IF fs["EKPO"].rows # <<>> /\ "BEWTP" \notin fs["EKBE"].columns
            THEN [ok |-> FALSE, data |-> loaded, results |-> counted]
            ELSE [ok |-> TRUE, data |-> loaded,
                  results |-> [counted EXCEPT !.profile = @ \cup {"cardinality"}]]

\* What the caller sees when a call of load_data or run returns.
Seen(call, returned, res) ==
    [call |-> call, returned |-> returned, score |-> res.score, checks |-> res.checks]

\* The number of direct calls of log, load_data and run explored.
MaxLog == 2

MaxCalls == 2

\* The records a client logs: a FAIL of each severity, and a WARN and a PASS of a
\* severity that the engine's own checks do not give them.
DirectChecks ==
    {Check("Direct", <<"call">>, "FAIL", severity) : severity \in {"Critical", "Warning", "Info"}}
    \cup {Check("Direct", <<"call">>, status, "Critical") : status \in {"WARN", "PASS"}}

\* A client calls log, before its first call of load_data or run.
DoLog(c) ==
    /\ pc = "idle"
    /\ observed = <<>>
    /\ Cardinality({i \in DOMAIN results.checks : results.checks[i].category = "Direct"}) < MaxLog
    /\ results' = Log(results, c)
    /\ UNCHANGED <<gen_vars, files, data, report, pc, dq_raised, observed>>

\* A client calls load_data.
DoLoadData ==
    /\ pc = "idle"
    /\ Len(observed) < MaxCalls
    /\ LET l == LoadData(files, data, results)
       IN /\ data' = l.data
          /\ results' = l.results
          /\ observed' = Append(observed, Seen("load_data", l.ok, l.results))
    /\ UNCHANGED <<gen_vars, files, report, pc, dq_raised>>

\* run is called: it loads the data and returns False if that fails.
Run ==
    /\ pc = "idle"
    /\ Len(observed) < MaxCalls
    /\ LET l == LoadData(files, data, results)
       IN /\ data' = l.data
          /\ results' = l.results
          /\ IF l.ok THEN pc' = "schema" /\ UNCHANGED observed
             ELSE /\ pc' = "idle"
                  /\ observed' = Append(observed, Seen("run", FALSE, l.results))
    /\ UNCHANGED <<gen_vars, files, report, dq_raised>>

\* One check stage of run: its log calls happen, and an exception leaves run.
Stage(at, events, keys, next) ==
    /\ pc = at
    /\ results' = [LogAll(results, Logged(events)) EXCEPT !.profile = @ \cup keys]
    /\ IF Thrown(events) = NoException
       THEN pc' = next /\ UNCHANGED dq_raised
       ELSE pc' = "crashed" /\ dq_raised' = Thrown(events)
    /\ UNCHANGED <<gen_vars, files, data, report, observed>>

SchemaStage == Stage("schema", RunSchemaChecks(data), {}, "integrity")

IntegrityStage == Stage("integrity", RunIntegrityChecks(data), {}, "logic")

LogicStage ==
    Stage("logic", RunBusinessLogic(data),
          IF StoresPriceVariance(data) THEN {"price_variance"} ELSE {}, "stats")

StatsStage ==
    LET events == RunStatsAndCompleteness(data)
        Reached(name) == \E i \in DOMAIN Logged(events) : Logged(events)[i].name = <<name>>
    IN Stage("stats", events,
             (IF Reached("Pareto Dist") THEN {"pareto_pct"} ELSE {})
             \cup (IF Reached("Late Delivery Rate") THEN {"late_pct"} ELSE {}), "report")

\* generate_html_report writes the results, and run returns True.
ReportStage ==
    /\ pc = "report"
    /\ report' = Frame(results)
    /\ observed' = Append(observed, Seen("run", TRUE, results))
    /\ pc' = "idle"
    /\ UNCHANGED <<gen_vars, files, data, results, dq_raised>>

\* An engine constructed over the data directory fs.
EngineInit(fs) ==
    /\ files = fs
    /\ data = <<>>
    /\ results = FreshResults
    /\ report = None
    /\ pc = "idle"
    /\ dq_raised = NoException
    /\ observed = <<>>

-----------------------------------------------------------------------------
(* The data directories the engine is run over.                            *)

\* A table with the required columns of its schema rule and the columns extra.
Table(name, extra, rows) ==
    [columns |-> Range(SCHEMA_RULES[name].required) \cup extra, rows |-> rows, flaws |-> {}]

\* A small data set that every schema, integrity and business-logic check accepts.
CleanFiles ==
    [LFA1 |-> Table("LFA1", {},
                 <<[LIFNR |-> <<"V", 1>>, SPERR |-> ""],
                   [LIFNR |-> <<"V", 2>>, SPERR |-> "X"]>>),
     MARA |-> Table("MARA", {},
                 <<[MATNR |-> <<"M", 1>>, MATKL |-> "ELECT"],
                   [MATNR |-> <<"M", 2>>, MATKL |-> "OFFICE"],
                   [MATNR |-> <<"M", 3>>, MATKL |-> "RAW"]>>),
     EKKO |-> Table("EKKO", {},
                 <<[EBELN |-> <<"PO", 1>>, BSART |-> "NB", AEDAT |-> 100,
                    LIFNR |-> <<"V", 1>>]>>),
     EKPO |-> Table("EKPO", {"KONNR"},
                 <<[EBELN |-> <<"PO", 1>>, EBELP |-> 10, MATNR |-> <<"M", 1>>,
                    MENGE |-> 3, NETPR |-> 95, NETWR |-> 285, EINDT |-> 110,
                    MATKL |-> "ELECT", KONNR |-> <<"C", 1>>]>>),
     EKBE |-> Table("EKBE", {"ACTUAL_DELIVERY_DATE"},
                 <<[EBELN |-> <<"PO", 1>>, EBELP |-> 10, BEWTP |-> "E", BUDAT |-> 112,
                    DMBTR |-> 285, BELNR |-> 1, ACTUAL_DELIVERY_DATE |-> <<112>>],
                   [EBELN |-> <<"PO", 1>>, EBELP |-> 10, BEWTP |-> "Q", BUDAT |-> 120,
                    DMBTR |-> 287, BELNR |-> 2, ACTUAL_DELIVERY_DATE |-> None]>>),
     VENDOR_CONTRACTS |-> Table("VENDOR_CONTRACTS", {},
                 <<[CONTRACT_ID |-> <<"C", 1>>, LIFNR |-> <<"V", 1>>, MATNR |-> <<"M", 1>>,
                    CONTRACT_PRICE |-> 95, VALID_FROM |-> 0, VALID_TO |-> 365]>>)]

\* A line of order 1 with the price netpr and the contract reference konnr.
Line(ebelp, netpr, konnr) ==
    [EBELN |-> <<"PO", 1>>, EBELP |-> ebelp, MATNR |-> <<"M", 1>>, MENGE |-> 1,
     NETPR |-> netpr, NETWR |-> netpr, EINDT |-> 110, MATKL |-> "ELECT", KONNR |-> konnr]

\* Data sets whose lines carry and lack contract references: a line at the contract
\* price, one off it, lines 4 and 5 off a price of 95, a reference to a contract
\* that does not exist, and no reference at all.
ContractLineFiles ==
    { [CleanFiles EXCEPT !.EKPO.rows = rows] : rows \in
        { <<Line(10, 95, <<"C", 1>>), Line(20, 500, None)>>,
          <<Line(10, 120, <<"C", 1>>), Line(20, 95, None)>>,
          <<Line(10, 99, <<"C", 1>>), Line(20, 95, None)>>,
          <<Line(10, 99, <<"C", 1>>), Line(20, 100, <<"C", 1>>), Line(30, 95, None)>>,
          <<Line(10, 120, <<"C", 9>>), Line(20, 95, None)>>,
          <<Line(10, 500, None)>> } }

\* The files of fs without those of the tables in gone.
Without(fs, gone) == [t \in (DOMAIN fs) \ gone |-> fs[t]]

Datasets ==
    { CleanFiles,
      \* a file is missing; a file is no parquet file; EKBE has no BEWTP column
      Without(CleanFiles, {"EKPO"}),
      [CleanFiles EXCEPT !.EKBE = [unreadable |-> TRUE]],
      [CleanFiles EXCEPT !.EKBE.columns = @ \ {"BEWTP"}],
      \* a table lacks a required column; a table has no rows
      [CleanFiles EXCEPT !.EKKO.columns = @ \ {"WAERS"}],
      [CleanFiles EXCEPT !.EKKO.rows = <<>>],
      [CleanFiles EXCEPT !.LFA1.columns = {"LIFNR", "SPERR"}],
      \* a line delivered before its order, which is dated after 2024
      [CleanFiles EXCEPT !.EKKO.rows[1].AEDAT = DaysTo2025 + 100,
                         !.EKPO.rows[1].EINDT = DaysTo2025 + 90,
                         !.EKBE.rows[1].BUDAT = DaysTo2025 + 112,
                         !.EKBE.rows[2].BUDAT = DaysTo2025 + 120],
      \* flawed cells, an orphan line, a price off the contract, a recent order of a
      \* blocked vendor
      [CleanFiles EXCEPT !.LFA1.flaws = {<<"null", "NAME1">>, <<"long", "LAND1">>,
                                         <<"dtype", "ERDAT">>},
                         !.EKKO.flaws = {<<"iso", "WAERS">>},
                         !.EKKO.rows[1].LIFNR = <<"V", 2>>,
                         !.EKPO.rows[1].MATNR = <<"M", 9>>,
                         !.EKPO.rows[1].NETPR = 120,
                         !.EKPO.rows[1].NETWR = 360,
                         !.EKBE.rows[2].DMBTR = 400] }
    \cup ContractLineFiles

NoFiles == <<>>

-----------------------------------------------------------------------------
(* The configurations and draw grids explored.                             *)

WithFields(cfg, upd) == [k \in DOMAIN cfg |-> IF k \in DOMAIN upd THEN upd[k] ELSE cfg[k]]

\* A simulation range of exactly 90 days: the cutoff is the first day.
ShortRange == [end_date |-> 90]

\* A simulation range of 60 days: the cutoff lies before the first day.
BriefRange == [end_date |-> 60]

Scenarios ==
    { \* blocked vendors and the repair of their orders
      [config |-> <<WithFields(DefaultConfig, [num_pos |-> 2])>>,
       wide   |-> {"sperr", "lifnr", "aedat", "offset", "bsart"}],
      [config |-> <<WithFields(DefaultConfig, ShortRange)>>,
       wide   |-> {"sperr", "erdat", "lifnr", "aedat", "offset"}],
      \* line items: quantities and large orders; counts, materials and lead times
      [config |-> <<WithFields(DefaultConfig,
                      [num_pos |-> 2, num_materials |-> 1, large_order_prob |-> 50])>>,
       wide   |-> {"menge"}],
      [config |-> <<WithFields(DefaultConfig,
                      [po_item_count |-> [median |-> 3, sigma |-> 1],
                       po_max_items |-> MaxItems])>>,
       wide   |-> {"matnr", "lead_time"}],
      \* history: split deliveries, delivery days, invoices
      [config |-> <<WithFields(DefaultConfig, [invoice_generation_rate |-> 50])>>,
       wide   |-> {"menge", "split", "final_days"}],
      [config |-> <<WithFields(DefaultConfig, [price_volatility |-> 15])>>,
       wide   |-> {"noise", "valid_from", "duration"}],
      \* the shuffles and the Faker values
      [config |-> <<DefaultConfig>>,
       wide   |-> {"sample"}],
      [config |-> <<DefaultConfig>>,
       wide   |-> {"name1", "maktx"}],
      \* two generators with the same seed and configuration
      [config |-> <<DefaultConfig, DefaultConfig>>,
       wide   |-> {"sperr", "name1", "lifnr"}] }
    \cup
    \* blocked vendors in a range shorter than the 90 days before the cutoff
    { [config |-> <<WithFields(DefaultConfig, BriefRange)>>,
       wide   |-> {"sperr", "erdat", "lifnr", "aedat", "offset"}] }
    \cup
    \* two contracts asked for, three (vendor, material) pairs drawn
    { [config |-> <<WithFields(DefaultConfig, [num_contracts |-> 2])>>,
       wide   |-> {"lifnr", "matnr"}] }
    \cup
    \* two orders whose item counts are drawn independently
    { [config |-> <<WithFields(DefaultConfig,
                      [num_pos |-> 2,
                       po_item_count |-> [median |-> 3, sigma |-> 1],
                       po_max_items |-> MaxItems])>>,
       wide   |-> {}] }
    \cup
    \* a top spend tier that is not empty, every vendor meant to be preferred
    { [config |-> <<WithFields(DefaultConfig,
                      [pareto_split |-> 50, preferred_vendor_ratio |-> 100])>>,
       wide   |-> {"sample"}] }
    \cup
    \* the category partition of every material count up to MaxTotal
    { [config |-> <<WithFields(DefaultConfig, [num_materials |-> n])>>,
       wide   |-> {}] : n \in 0..MaxTotal }

\* No generator was built: the process-wide generators are not seeded.
Unseeded == Seeded(-1)

\* The state after the program started with the configurations of scenario sc.
GeneratorInit(sc) ==
    /\ config = sc.config
    /\ wide = sc.wide
    /\ phase = [g \in DOMAIN sc.config |-> "new"]
    /\ raised = NoException
    /\ last_call = <<0, "none">>
    /\ np_state = Unseeded
    /\ fk_state = Unseeded
    /\ stream = <<>>
    /\ lfa1 = [g \in DOMAIN sc.config |-> None]
    /\ mara = [g \in DOMAIN sc.config |-> None]
    /\ contracts = [g \in DOMAIN sc.config |-> None]
    /\ ekko = [g \in DOMAIN sc.config |-> None]
    /\ ekpo = [g \in DOMAIN sc.config |-> None]
    /\ ekbe = [g \in DOMAIN sc.config |-> None]

Init ==
    /\ \E sc \in Scenarios : GeneratorInit(sc)
    /\ EngineInit(NoFiles)

Next ==
    \E g \in GenIds :
        \/ Construct(g)
        \/ GenerateLfa1(g)
        \/ GenerateMara(g)
        \/ GenerateContracts(g)
        \/ GenerateEkko(g)
        \/ GenerateEkpo(g)
        \/ GenerateEkbe(g)
        \/ CleanupHiddenColumns(g)

Spec == Init /\ [][Next]_vars

\* __init__ called while an earlier generator exists and has not finished: the
\* constructor itself waits for nothing.
ConstructAnytime(g) ==
    /\ g \in Gens
    /\ UNCHANGED dq_vars
    /\ raised = NoException
    /\ phase[g] = "new"
    /\ phase' = [phase EXCEPT ![g] = "built"]
    /\ np_state' = Seeded(config[g].seed)
    /\ fk_state' = Seeded(config[g].seed)
    /\ lfa1' = [lfa1 EXCEPT ![g] = None]
    /\ mara' = [mara EXCEPT ![g] = None]
    /\ contracts' = [contracts EXCEPT ![g] = None]
    /\ ekko' = [ekko EXCEPT ![g] = None]
    /\ ekpo' = [ekpo EXCEPT ![g] = None]
    /\ ekbe' = [ekbe EXCEPT ![g] = None]
    /\ UNCHANGED <<config, wide, raised, last_call, stream>>

\* Two generators of the same seed and configuration that live in one process at
\* the same time.
SharedInit ==
    /\ GeneratorInit([config |-> <<DefaultConfig, DefaultConfig>>, wide |-> {"sperr"}])
    /\ EngineInit(NoFiles)

\* Generator h is inside generate_all: a stage has run and the cleanup has not.
MidRun(h) == h \in Gens /\ phase[h] = "built" /\ lfa1[h] # None

\* The next step of generator g is stage s: the stages run in Pipeline order, and
\* generate_all of the second generator is one call, which the caller of the
\* first generator's stages lets return before it goes on.
Turn(g, s) == g \in Gens /\ InTurn(g, s) /\ (g = 1 => ~MidRun(2))

\* The second generator may be constructed and run before, between and after the
\* stages of the first.
SharedNext ==
    \E g \in GenIds :
        \/ ConstructAnytime(g)
        \/ Turn(g, "lfa1") /\ GenerateLfa1(g)
        \/ Turn(g, "mara") /\ GenerateMara(g)
        \/ Turn(g, "contracts") /\ GenerateContracts(g)
        \/ Turn(g, "ekko") /\ GenerateEkko(g)
        \/ Turn(g, "ekpo") /\ GenerateEkpo(g)
        \/ Turn(g, "ekbe") /\ GenerateEkbe(g)
        \/ (g = 1 => ~MidRun(2)) /\ CleanupHiddenColumns(g)

SharedSpec == SharedInit /\ [][SharedNext]_vars

\* The quality engine run over each of the data directories.
DqInit ==
    /\ GeneratorInit([config |-> <<DefaultConfig>>, wide |-> {}])
    /\ \E fs \in Datasets : EngineInit(fs)

DqNext ==
    \/ \E c \in DirectChecks : DoLog(c)
    \/ DoLoadData
    \/ Run
    \/ SchemaStage
    \/ IntegrityStage
    \/ LogicStage
    \/ StatsStage
    \/ ReportStage

DqSpec == DqInit /\ [][DqNext]_vars

-----------------------------------------------------------------------------
(* What a stage requires.                                                  *)

\* The tables a stage asserts to exist before it does anything else.
Requires(s) ==
    CASE s = "lfa1" -> {}
      [] s = "mara" -> {}
      [] s = "contracts" -> {"lfa1", "mara"}
      [] s = "ekko" -> {"lfa1"}
      [] s = "ekpo" -> {"lfa1", "ekko", "mara", "contracts"}
      [] s = "ekbe" -> {"ekpo", "ekko", "lfa1"}

-----------------------------------------------------------------------------
(* Properties.                                                             *)

\* The headers of generator g that have a blocked vendor and an order date
\* on or after end_date minus 90 days.
BlockedRecent(g) ==
    {i \in DOMAIN Rows(ekko[g]) :
        /\ VendorOf(Rows(lfa1[g]), Rows(ekko[g])[i].LIFNR).SPERR = "X"
        /\ Rows(ekko[g])[i].AEDAT >= config[g].end_date - 90}

\* C1: after _generate_ekko completes, for every configuration, no PO header has a
\* vendor whose SPERR is "X" together with an AEDAT on or after end_date minus 90
\* days.  (Stated as claimed; it fails for a simulation range of at most 90 days.)
C1_NoBlockedRecent ==
    \A g \in Gens : ekko[g] # None => BlockedRecent(g) = {}

\* C2: the six tables are referentially closed: every header's vendor is in the
\* vendor master, every line item's PO number is in the headers and its material in
\* the material master, every contract's vendor and material are in the masters,
\* and every history event's (PO number, line number) pair is a line item.  It holds
\* after generate_all and already from the moment each referring table exists.
C2_ReferentialClosure ==
    \A g \in Gens :
        /\ CheckFk(ekko[g], "LIFNR", lfa1[g], "LIFNR")
        /\ CheckFk(ekpo[g], "EBELN", ekko[g], "EBELN")
        /\ CheckFk(ekpo[g], "MATNR", mara[g], "MATNR")
        /\ CheckFk(contracts[g], "LIFNR", lfa1[g], "LIFNR")
        /\ CheckFk(contracts[g], "MATNR", mara[g], "MATNR")
        /\ ekbe[g] # None => (ekpo[g] # None /\ ItemKeys(ekbe[g]) \subseteq ItemKeys(ekpo[g]))

C2_Witness ==
    /\ phase[1] = "done"
    /\ Len(Rows(ekpo[1])) = 2
    /\ Len(Rows(ekbe[1])) = 4
    /\ Len(Rows(contracts[1])) = 1
    /\ Cardinality(Column(ekpo[1], "MATNR")) = 2

\* The output form of a table: without the helper columns the cleanup drops.
Output(frame) == CleanTable(frame, {"spend_weight", "perf_bias", "base_price", "is_large"})

C4_NetValueIsQuantityTimesPrice ==
    \A g \in Gens :
        ekpo[g] # None =>
            \A r \in Range(Rows(ekpo[g])) :
                /\ r.NETWR = r.MENGE * r.NETPR
                /\ r.MENGE = 0 => r.NETWR = 0

C4_Witness ==
    /\ ekpo[1] # None /\ phase[1] = "built"
    /\ \E r \in Range(Rows(ekpo[1])) : r.MENGE = 0
    /\ \E r \in Range(Rows(ekpo[1])), h \in Range(Rows(ekko[1])) :
          /\ h.EBELN = r.EBELN /\ h.is_large
          /\ r.MENGE \notin MengeValues
          /\ r.MENGE = QtyForced(config[1].large_order_value_range[1], r.NETPR)

\* C5: for every data set produced by generate_all the quality engine's Blocked
\* Vendors check passes: no header of a blocked vendor has an order date later than
\* the latest order date of the header table minus 90 days.  (Stated as claimed; it
\* fails when the latest order date is less than 90 days after a blocked vendor's.)
C5_BlockedVendorsCheckPasses ==
    \A g \in Gens :
        phase[g] = "done" => Suspicious(Rows(lfa1[g]), Rows(ekko[g])) = {}

\* C6: every generated contract has VALID_FROM strictly before VALID_TO, a
\* VALID_FROM between start_date and end_date minus 90 days, and a duration
\* VALID_TO minus VALID_FROM inside the configured [min, max] day range.
C6_ContractValidity ==
    \A g \in Gens :
        contracts[g] # None =>
            \A r \in Range(Rows(contracts[g])) :
                /\ r.VALID_FROM < r.VALID_TO
                /\ config[g].start_date <= r.VALID_FROM
                /\ r.VALID_FROM <= config[g].end_date - 90
                /\ r.VALID_TO - r.VALID_FROM >= config[g].contract_duration_range[1]
                /\ r.VALID_TO - r.VALID_FROM <= config[g].contract_duration_range[2]
                /\ config[g].contract_duration_range = <<365, 1095>>
                   => r.VALID_TO - r.VALID_FROM >= 365

C6_Witness ==
    /\ contracts[1] # None
    /\ \E r \in Range(Rows(contracts[1])) :
          /\ r.VALID_FROM = config[1].end_date - 90
          /\ r.VALID_TO - r.VALID_FROM = config[1].contract_duration_range[1]

\* The order date of the header of a line item or history event.
OrderDate(g, ebeln) == (CHOOSE h \in Range(Rows(ekko[g])) : h.EBELN = ebeln).AEDAT

\* C7: every line item's requested delivery date EINDT is at least 5 and at most
\* 30 days after the order date AEDAT of its PO header, so never before it.
C7_DeliveryAfterOrder ==
    \A g \in Gens :
        ekpo[g] # None =>
            \A r \in Range(Rows(ekpo[g])) :
                /\ r.EINDT - OrderDate(g, r.EBELN) >= 5
                /\ r.EINDT - OrderDate(g, r.EBELN) <= 30
                /\ r.EINDT >= OrderDate(g, r.EBELN)

C7_Witness ==
    /\ ekpo[1] # None
    /\ \E r, q \in Range(Rows(ekpo[1])) :
          /\ r.EINDT - OrderDate(1, r.EBELN) = 5
          /\ q.EINDT - OrderDate(1, q.EBELN) = 29

\* The positions in the history of the events of kind bewtp of a line item.
EventsOf(g, item, bewtp) ==
    {i \in DOMAIN Rows(ekbe[g]) :
        /\ Rows(ekbe[g])[i].EBELN = item.EBELN
        /\ Rows(ekbe[g])[i].EBELP = item.EBELP
        /\ Rows(ekbe[g])[i].BEWTP = bewtp}

\* The quantities of the goods receipts of a line item, summed.
ReceivedQuantity(g, item) ==
    SumOver([i \in DOMAIN Rows(ekbe[g]) |-> Rows(ekbe[g])[i].MENGE], EventsOf(g, item, "E"))

\* C8: every line item has one or two goods-receipt events, and the quantities of
\* its goods-receipt events sum to the line item's quantity.  (Stated as claimed; it
\* fails for a split line of quantity 0, whose first receipt is raised to 1.)
C8_ReceiptsSumToQuantity ==
    \A g \in Gens :
        ekbe[g] # None =>
            \A item \in Range(Rows(ekpo[g])) :
                /\ Cardinality(EventsOf(g, item, "E")) \in {1, 2}
                /\ ReceivedQuantity(g, item) = item.MENGE

\* C9: every goods receipt is posted on or after the order date of its PO, and
\* every invoice receipt is generated from exactly one goods receipt of the same
\* (PO, line), with its quantity, and is posted 5 to 30 days after that goods
\* receipt, never before it: the invoices of a line item map one-to-one into its
\* goods receipts.
C9_EventsOrderedInTime ==
    \A g \in Gens :
        ekbe[g] # None =>
            LET events == Rows(ekbe[g]) IN
            /\ \A e \in Range(events) :
                  e.BEWTP = "E" => e.BUDAT >= OrderDate(g, e.EBELN)
            /\ \A item \in Range(Rows(ekpo[g])) :
                  LET ir == EventsOf(g, item, "Q")
                      gr == EventsOf(g, item, "E")
                  IN \E f \in [ir -> gr] :
                        /\ \A i, j \in ir : f[i] = f[j] => i = j
                        /\ \A i \in ir :
                              /\ events[i].MENGE = events[f[i]].MENGE
                              /\ events[i].BUDAT - events[f[i]].BUDAT >= 5
                              /\ events[i].BUDAT - events[f[i]].BUDAT <= 30
                              /\ events[i].BUDAT >= events[f[i]].BUDAT

C9_Witness ==
    /\ ekbe[1] # None
    /\ \E item \in Range(Rows(ekpo[1])) :
          /\ Cardinality(EventsOf(1, item, "E")) = 2
          /\ Cardinality(EventsOf(1, item, "Q")) = 1
          /\ \E i \in EventsOf(1, item, "E") :
                Rows(ekbe[1])[i].BUDAT = OrderDate(1, item.EBELN)
          /\ \E i \in EventsOf(1, item, "Q"), j \in EventsOf(1, item, "E") :
                Rows(ekbe[1])[i].BUDAT - Rows(ekbe[1])[j].BUDAT = 29

\* C10: calling a generation stage before the tables it depends on exist raises an
\* error and leaves that stage's output table unset; it never produces an empty or
\* null-filled table.
C10_OutOfOrderRaises ==
    [][\A g \in GenIds, s \in Stages :
          (/\ last_call' = <<g, s>>
           /\ last_call # <<g, s>>
           /\ \E t \in Requires(s) : TableOf(t)[g] = None)
          => (raised' # NoException /\ TableOf(s)'[g] = None)]_vars

C10_Witness ==
    /\ raised = "AssertionError"
    /\ last_call = <<1, "ekpo">>
    /\ lfa1[1] # None /\ mara[1] # None /\ contracts[1] = None /\ ekko[1] = None
    /\ ekpo[1] = None

-----------------------------------------------------------------------------
(* Properties of the quality engine, under DqSpec.                         *)

\* Some required table file of the data directory is missing or unreadable.
SomeFileUnreadable == \E i \in DOMAIN REQUIRED_TABLES : ~Readable(files, REQUIRED_TABLES[i])

\* C11: if one of the six required table files is missing or unreadable, every call
\* of load_data and of run returns False and raises nothing, the engine enters no
\* check stage, and the call leaves the score, the check records and the report as
\* they were: no record logged, the score still 100 if it was, no report written.
C11_LoadFailureEndsRun ==
    [][SomeFileUnreadable /\ (observed' # observed \/ pc' # pc) =>
          /\ Len(observed') = Len(observed) + 1
          /\ ~observed'[Len(observed')].returned
          /\ pc' = "idle"
          /\ dq_raised' = NoException
          /\ results'.score = results.score
          /\ results'.checks = results.checks
          /\ report' = None]_vars

\* A run over a directory without EKPO.parquet returned False to its caller, the
\* score at 100 and nothing logged.
C11_Witness ==
    /\ "EKPO" \notin DOMAIN files
    /\ \E i \in DOMAIN observed :
          observed[i] = [call |-> "run", returned |-> FALSE, score |-> 100, checks |-> <<>>]
    /\ report = None

\* C12: once the six tables are loaded, run raises nothing: whatever the tables
\* hold, no exception leaves a check stage.
C12_RunNeverRaises == dq_raised = NoException

\* The penalty of a logged record: 15 for a Critical FAIL, 5 for a Warning FAIL, 2
\* for a WARN, nothing for a PASS.
PenaltyOf(c) ==
    IF c.status = "FAIL" /\ c.severity = "Critical" THEN 15
    ELSE IF c.status = "FAIL" /\ c.severity = "Warning" THEN 5
    ELSE IF c.status = "WARN" THEN 2
    ELSE 0

\* C13: the score lies in 0..100, never increases, and equals max(0, 100 - the sum
\* of the penalties of the logged records), whatever the order of the records.
C13_ScoreIsHundredMinusPenalties ==
    /\ [](/\ results.score \in 0..100
          /\ results.score =
                Max(0, 100 - SumOver([i \in DOMAIN results.checks |->
                                         PenaltyOf(results.checks[i])],
                                     DOMAIN results.checks)))
    /\ [][results'.score <= results.score]_vars

\* The penalties logged exceed 100 and the score stopped at 0, with records of all
\* three statuses in the log.
C13_Witness ==
    /\ results.score = 0
    /\ SumOver([i \in DOMAIN results.checks |-> PenaltyOf(results.checks[i])],
               DOMAIN results.checks) > 100
    /\ \A st \in {"PASS", "FAIL", "WARN"} :
          \E i \in DOMAIN results.checks : results.checks[i].status = st

\* The records a step appended to the log.
Appended == SubSeq(results'.checks, Len(results.checks) + 1, Len(results'.checks))

\* C14: a step that logs a FAIL record, of any severity, and otherwise only PASS
\* records lowers the score, unless the score is 0 already.
C14_EveryFailLowersScore ==
    [][(/\ \E i \in DOMAIN Appended : Appended[i].status = "FAIL"
        /\ \A i \in DOMAIN Appended : Appended[i].status \in {"FAIL", "PASS"}
        /\ results.score > 0)
       => results'.score < results.score]_vars

\* C15: every call of run that returns True shows its caller the same score and the
\* same check records as the one before it on the same engine.
C15_RunIsIdempotent ==
    \A i, j \in DOMAIN observed :
        (observed[i].call = "run" /\ observed[j].call = "run"
         /\ observed[i].returned /\ observed[j].returned)
        => (observed[i].score = observed[j].score /\ observed[i].checks = observed[j].checks)

\* The rows of a material table that carry material group c.
InGroup(rows, c) == {i \in DOMAIN rows : rows[i].MATKL = c}

\* C16: for every num_materials >= 0 the five category counts are non-negative
\* and sum to num_materials, the service category taking what the four truncated
\* shares leave; the material table has exactly num_materials rows, its material
\* codes are pairwise distinct, and each material group has as many rows as its
\* categories were counted (ELECT_F and ELECT_P both appear as group ELECT).
C16_CategoriesPartitionMaterials ==
    \A g \in Gens :
        mara[g] # None =>
            LET rows  == Rows(mara[g])
                total == config[g].num_materials
                count == [c \in Range(Categories) |-> CategoryCount(total, c)]
            IN /\ \A c \in Range(Categories) : count[c] >= 0
               /\ SumOver(count, Range(Categories)) = total
               /\ count["SERV"] = total - (count["ELECT_F"] + count["ELECT_P"]
                                            + count["OFFICE"] + count["RAW"])
               /\ Len(rows) = total
               /\ \A i, j \in DOMAIN rows : rows[i].MATNR = rows[j].MATNR => i = j
               /\ \A m \in {DisplayCat(c) : c \in Range(Categories)} :
                     Cardinality(InGroup(rows, m)) =
                        SumOver(count, {c \in Range(Categories) : DisplayCat(c) = m})

\* A material table in which the service category holds more than its truncated
\* tenth, next to non-empty groups of every other kind.
C16_Witness ==
    \E g \in Gens :
        /\ mara[g] # None
        /\ Len(Rows(mara[g])) = config[g].num_materials
        /\ Cardinality(InGroup(Rows(mara[g]), "SERV")) > (config[g].num_materials * 10) \div 100
        /\ \A m \in {"ELECT", "OFFICE", "RAW"} : InGroup(Rows(mara[g]), m) # {}

\* The vendor tables that still carry the internal spend weight.
Weighted(g) == lfa1[g] # None /\ \A r \in Range(Rows(lfa1[g])) : "spend_weight" \in DOMAIN r

ProbsOf(g) == stream[StreamKey("np", Seeded(config[g].seed), "lfa1", 0)].probs

\* C18: preferred status is assigned in both spend tiers: a top-tier vendor is
\* PREF exactly when its uniform draw is below num_pref_top / num_top, a
\* standard-tier vendor exactly when its draw is below
\* num_pref_bottom / (n - num_top).
C18_PreferredInBothTiers ==
    \A g \in Gens :
        lfa1[g] # None =>
            \A r \in Range(Rows(lfa1[g])) :
                LET k    == r.LIFNR[2]
                    prob == ProbsOf(g)[k]
                    cfg  == config[g]
                IN (r.KTOKK = "PREF") <=>
                      IF k <= NumTop(cfg)
                      THEN RatLess(prob, TopThreshold(cfg))
                      ELSE RatLess(prob, BottomThreshold(cfg))

\* The positions of the line items of order ebeln, in table order.
ItemsOf(rows, ebeln) == {i \in DOMAIN rows : rows[i].EBELN = ebeln}

\* C19: every order header has at least 1 and at most po_max_items line items
\* (po_max_items >= 1); the line numbers of an order are 10, 20, ..., 10 * k in
\* the order the items were generated, so no two items share an order number and
\* a line number, and no header is without items.
C19_ItemsNumberedByTen ==
    \A g \in Gens :
        (ekko[g] # None /\ ekpo[g] # None /\ config[g].po_max_items >= 1) =>
            LET rows == Rows(ekpo[g]) IN
            /\ \A h \in Range(Rows(ekko[g])) :
                  LET items == ItemsOf(rows, h.EBELN) IN
                  /\ Cardinality(items) >= 1
                  /\ Cardinality(items) <= config[g].po_max_items
                  /\ \A i \in items :
                        rows[i].EBELP = 10 * Cardinality({j \in items : j <= i})
            /\ \A i, j \in DOMAIN rows :
                  (rows[i].EBELN = rows[j].EBELN /\ rows[i].EBELP = rows[j].EBELP) => i = j

\* Two orders of one generator, one with a single item and one with
\* po_max_items > 1 items.
C19_Witness ==
    \E g \in Gens :
        /\ ekko[g] # None /\ ekpo[g] # None /\ config[g].po_max_items > 1
        /\ \E h1, h2 \in Range(Rows(ekko[g])) :
              /\ Cardinality(ItemsOf(Rows(ekpo[g]), h1.EBELN)) = 1
              /\ Cardinality(ItemsOf(Rows(ekpo[g]), h2.EBELN)) = config[g].po_max_items

\* The (vendor, material) pairs np.random.choice drew in generator g's contract
\* stage, the third stage after the seeding.
DrawnPairs(g) ==
    stream[StreamKey("np", [seed |-> config[g].seed, calls |-> <<"lfa1", "mara">>],
                     "contracts", 0)].pairs

\* C20: the contract table never holds two contracts of the same vendor and
\* material, never has more than num_contracts rows, has as many rows as the
\* draws gave distinct pairs when those are fewer than num_contracts (no
\* padding), and its contract ids are pairwise distinct.
C20_ContractPairsUnique ==
    \A g \in Gens :
        contracts[g] # None =>
            LET rows == Rows(contracts[g]) IN
            /\ \A i, j \in DOMAIN rows :
                  (rows[i].LIFNR = rows[j].LIFNR /\ rows[i].MATNR = rows[j].MATNR) => i = j
            /\ Len(rows) <= config[g].num_contracts
            /\ Len(rows) = Min(config[g].num_contracts, Cardinality(Range(DrawnPairs(g))))
            /\ \A i, j \in DOMAIN rows : rows[i].CONTRACT_ID = rows[j].CONTRACT_ID => i = j

\* Three draws of the same pair: one contract where two were asked for.
C20_Witness ==
    \E g \in Gens :
        /\ contracts[g] # None
        /\ config[g].num_contracts = 2
        /\ Len(DrawnPairs(g)) = 3
        /\ Cardinality(Range(DrawnPairs(g))) = 1
        /\ Len(Rows(contracts[g])) = 1

\* The rows of a table without the columns in cols, for the comparison of a
\* table before and after a step.
Stripped(frame, cols) ==
    IF frame = None THEN None
    ELSE [i \in DOMAIN Rows(frame) |->
            [c \in (DOMAIN Rows(frame)[i]) \ cols |-> Rows(frame)[i][c]]]

Hidden(frame, cols) ==
    frame # None /\ \E r \in Range(Rows(frame)) : DOMAIN r \cap cols # {}

\* C21: after generate_all the vendor table has no spend_weight or perf_bias
\* column, the material table no base_price column and the header table no
\* is_large column; the cleanup step removes only these columns: the rows, their
\* order and every other column of the three tables stay as they were, and the
\* contracts, the line items and the history are not touched at all.
C21_CleanupDropsOnlyHiddenColumns ==
    /\ [](\A g \in Gens :
            phase[g] = "done" =>
               /\ ~Hidden(lfa1[g], {"spend_weight", "perf_bias"})
               /\ ~Hidden(mara[g], {"base_price"})
               /\ ~Hidden(ekko[g], {"is_large"}))
    /\ [][\A g \in Gens :
            (phase[g] = "built" /\ phase'[g] = "done") =>
               /\ Stripped(lfa1'[g], {}) = Stripped(lfa1[g], {"spend_weight", "perf_bias"})
               /\ Stripped(mara'[g], {}) = Stripped(mara[g], {"base_price"})
               /\ Stripped(ekko'[g], {}) = Stripped(ekko[g], {"is_large"})
               /\ contracts'[g] = contracts[g]
               /\ ekpo'[g] = ekpo[g]
               /\ ekbe'[g] = ekbe[g]
               /\ \A h \in Gens \ {g} :
                     /\ lfa1'[h] = lfa1[h] /\ mara'[h] = mara[h] /\ ekko'[h] = ekko[h]
                     /\ contracts'[h] = contracts[h] /\ ekpo'[h] = ekpo[h]
                     /\ ekbe'[h] = ekbe[h]]_vars

\* A finished generate_all whose six tables all have rows.
C21_Witness ==
    \E g \in Gens :
        /\ phase[g] = "done"
        /\ \A t \in {lfa1, mara, contracts, ekko, ekpo, ekbe} : t[g] # None /\ Rows(t[g]) # <<>>
        /\ \A r \in Range(Rows(lfa1[g])) : "LIFNR" \in DOMAIN r /\ "spend_weight" \notin DOMAIN r

\* The header of a line item.
HeaderOf(g, item) == CHOOSE h \in Range(Rows(ekko[g])) : h.EBELN = item.EBELN

\* The generators whose line items exist.
WithItems == {g \in Gens : contracts[g] # None /\ ekko[g] # None /\ ekpo[g] # None}

\* The contracts of the header's vendor that are valid on the order date.
ValidContracts(g, h) ==
    {c \in Range(Rows(contracts[g])) :
        c.LIFNR = h.LIFNR /\ c.VALID_FROM <= h.AEDAT /\ h.AEDAT <= c.VALID_TO}

Referenced(g, item) == CHOOSE c \in Range(Rows(contracts[g])) : c.CONTRACT_ID = item.KONNR

\* C23: for every line item with a contract reference, the order date of its
\* order lies inside the referenced contract's validity window, and no other
\* contract of the same vendor has a later VALID_FROM that is on or before the
\* order date.
C23_ReferenceIsLatestValidContract ==
    \A g \in WithItems :
        \A item \in Range(Rows(ekpo[g])) :
            item.KONNR # None =>
                LET h == HeaderOf(g, item)
                    c == Referenced(g, item)
                IN /\ c.VALID_FROM <= h.AEDAT /\ h.AEDAT <= c.VALID_TO
                   /\ \A e \in Range(Rows(contracts[g])) :
                         (e.LIFNR = h.LIFNR /\ e.VALID_FROM <= h.AEDAT)
                            => e.VALID_FROM <= c.VALID_FROM

\* A line item that carries a contract reference.
C23_SomeLineReferencesAContract ==
    \E g \in WithItems : \E item \in Range(Rows(ekpo[g])) : item.KONNR # None

\* The generators whose line items exist while the masters still carry the
\* base prices.
Priced == {g \in WithItems : lfa1[g] # None /\ mara[g] # None
                              /\ \A m \in Range(Rows(mara[g])) : "base_price" \in DOMAIN m}

\* The base price of the material of a line item.
BaseOf(g, item) == (CHOOSE m \in Range(Rows(mara[g])) : m.MATNR = item.MATNR).base_price

\* Whether the vendor of a line item's order is a preferred vendor.
Preferred(g, item) ==
    (CHOOSE v \in Range(Rows(lfa1[g])) : v.LIFNR = HeaderOf(g, item).LIFNR).KTOKK = "PREF"

\* NETPR is the base price of the line's material times a noise factor of the
\* configured volatility, times a preferred-vendor discount for a PREF vendor
\* (the factors in percent; a base price is a whole number of currency units,
\* PriceUnit each).
AtSpotPrice(g, item) ==
    \E noise \in NoiseValues(config[g]) :
        IF Preferred(g, item)
        THEN \E discount \in PrefDiscountValues(config[g]) :
                item.NETPR = (BaseOf(g, item) \div PriceUnit) * noise * discount
        ELSE item.NETPR * 100 = BaseOf(g, item) * noise

HeaderDraws == stream'[StreamKey("np", np_state, "ekko", 0)]

\* C25: the blocked-vendor repair changes only flagged headers (blocked vendor,
\* drawn date on or after the cutoff): a flagged header whose vendor was created
\* before the cutoff keeps its vendor and gets an order date in
\* [max(vendor creation date, start_date), cutoff]; a flagged header whose vendor
\* was created on or after the cutoff keeps its date and gets a vendor that is not
\* blocked; a header that was not flagged keeps its drawn date and vendor.
C25_RepairChangesOnlyFlaggedHeaders ==
    [][\A g \in Gens :
         (ekko[g] = None /\ ekko'[g] # None) =>
            LET cfg    == config[g]
                cutoff == cfg.end_date - 90
                rows   == Rows(ekko'[g])
            IN \A i \in DOMAIN rows :
                  LET vendor  == Rows(lfa1[g])[HeaderDraws.lifnr[i]]
                      drawn   == HeaderDraws.aedat[i]
                      flagged == vendor.SPERR = "X" /\ drawn >= cutoff
                  IN IF flagged /\ vendor.ERDAT < cutoff
                     THEN /\ rows[i].LIFNR = vendor.LIFNR
                          /\ rows[i].AEDAT >= Max(vendor.ERDAT, cfg.start_date)
                          /\ rows[i].AEDAT <= cutoff
                     ELSE IF flagged
                     THEN /\ rows[i].AEDAT = drawn
                          /\ VendorOf(Rows(lfa1[g]), rows[i].LIFNR).SPERR = ""
                     ELSE /\ rows[i].AEDAT = drawn
                          /\ rows[i].LIFNR = vendor.LIFNR]_vars

\* The draws of the line-item stage that is returning in this step, and those of
\* the line-item stage of a generator run in pipeline order.
ItemDraws == stream'[StreamKey("np", np_state, "ekpo", 0)]

ItemDrawsOf(g) ==
    stream[StreamKey("np", [seed |-> config[g].seed,
                            calls |-> <<"lfa1", "mara", "contracts", "ekko">>], "ekpo", 0)]

\* C26: for every line of an order flagged large the final quantity is the
\* maximum of the drawn quantity and floor(target value / unit price) for a target
\* value inside large_order_value_range, so it is never below the drawn quantity;
\* a line of an order that is not flagged large keeps the drawn quantity.
C26_LargeOrderQuantityIsMax ==
    [][\A g \in Gens :
         (ekpo[g] = None /\ ekpo'[g] # None) =>
            LET rows  == Rows(ekpo'[g])
                range == config[g].large_order_value_range
            IN \A i \in DOMAIN rows :
                  LET h     == CHOOSE x \in Range(Rows(ekko[g])) : x.EBELN = rows[i].EBELN
                      drawn == ItemDraws.menge[i]
                  IN IF h.is_large
                     THEN /\ rows[i].MENGE >= drawn
                          /\ \E target \in range[1]..range[2] :
                                rows[i].MENGE =
                                   Max(drawn, (target * PriceUnit) \div rows[i].NETPR)
                     ELSE rows[i].MENGE = drawn]_vars

\* Two lines of large orders: one whose drawn quantity was raised to the forced
\* quantity, one whose drawn quantity was the higher and was kept.
C26_Witness ==
    \E g \in Gens :
        /\ ekko[g] # None /\ ekpo[g] # None /\ phase[g] = "built" /\ Unset(g) # {}
        /\ \E i, j \in DOMAIN Rows(ekpo[g]) :
              LET ri == Rows(ekpo[g])[i]
                  rj == Rows(ekpo[g])[j]
                  forced(r) == (config[g].large_order_value_range[1] * PriceUnit) \div r.NETPR
              IN /\ \A h \in Range(Rows(ekko[g])) : h.is_large
                 /\ ItemDrawsOf(g).menge[i] < forced(ri) /\ ri.MENGE = forced(ri)
                 /\ ItemDrawsOf(g).menge[j] > forced(rj) /\ rj.MENGE = ItemDrawsOf(g).menge[j]

\* The lines of EKPO that carry a contract reference.
Referencing(tabs) ==
    IF "KONNR" \in tabs["EKPO"].columns
    THEN {r \in Range(tabs["EKPO"].rows) : r.KONNR # None}
    ELSE {}

\* tabs with the rows of EKPO replaced.
WithLines(tabs, rows) == [t \in DOMAIN tabs |-> IF t = "EKPO" THEN [tabs[t] EXCEPT !.rows = rows] ELSE tabs[t]]

\* The data sets got from tabs by removing some lines without a reference, by
\* changing the price of all of them, or by adding one.
NullLineVariants(tabs) ==
    LET rows == tabs["EKPO"].rows
        nulls == {i \in DOMAIN rows : rows[i].KONNR = None}
        Kept(gone) ==
            LET F[i \in 0..Len(rows)] ==
                    IF i = 0 THEN <<>>
                    ELSE IF i \in gone THEN F[i - 1] ELSE Append(F[i - 1], rows[i])
            IN F[Len(rows)]
    IN {WithLines(tabs, Kept(gone)) : gone \in SUBSET nulls}
       \cup {WithLines(tabs, [i \in DOMAIN rows |->
                                 IF i \in nulls THEN [rows[i] EXCEPT !.NETPR = p, !.NETWR = p]
                                 ELSE rows[i]]) : p \in {0, 1000}}
       \cup {WithLines(tabs, Append(rows, Line(90, p, None))) : p \in {1, 1000}}

\* C27: when the business-logic stage of run completes, the Contract Price
\* Consistency record it logged is FAIL (Critical) exactly when some line with a
\* reference whose contract exists is more than 5% off the contract price, and the
\* check logs the same record on every data set that differs only in lines
\* without a reference.
C27_ContractCheckIgnoresNullLines ==
    [][(pc = "logic" /\ pc' = "stats")
       => LET logged == results'.checks[Len(results'.checks)]
          IN /\ logged.name = <<"Contract Price Consistency">>
             /\ (logged.status = "FAIL" /\ logged.severity = "Critical")
                <=> \E r \in Referencing(data), c \in Range(data["VENDOR_CONTRACTS"].rows) :
                       /\ c.CONTRACT_ID = r.KONNR
                       /\ Abs(r.NETPR - c.CONTRACT_PRICE) * 100 > 5 * c.CONTRACT_PRICE
             /\ logged.status = "FAIL" => logged.severity = "Critical"
             /\ "KONNR" \in data["EKPO"].columns
                => \A v \in NullLineVariants(data) :
                       CheckContractPriceCompliance(v) = <<logged>>]_vars

\* The stage logged a failure for data with a line without a reference.
C27_Witness ==
    /\ pc = "stats"
    /\ results.checks # <<>>
    /\ results.checks[Len(results.checks)]
         = Check("Logic", <<"Contract Price Consistency">>, "FAIL", "Critical")
    /\ \E r \in Range(data["EKPO"].rows) : r.KONNR = None
    /\ \E r \in Range(data["EKPO"].rows) : r.KONNR # None

\* The history of generator g as the engine loads it: the document numbers
\* "5000000001", ... compare as their counters do.
HistoryOf(g) ==
    LET rows == Rows(ekbe[g]) IN
    [columns |-> IF rows = <<>> THEN {} ELSE DOMAIN rows[1],
     rows |-> [i \in DOMAIN rows |-> [rows[i] EXCEPT !.BELNR = @[2]]]]

\* diff_amt > DMBTR_GR * 0.02 and diff_amt > 0.01, for amounts in 1/10000 units.
TooFar(gr, inv) == Abs(gr - inv) > gr \div 50 /\ Abs(gr - inv) > PriceUnit \div 100

\* The pairs of history rows the engine's fallback matches and finds too far apart.
BadPairs(g) ==
    {p \in MatchedPairs(HistoryOf(g)) :
        TooFar(Rows(ekbe[g])[p[1]].DMBTR, Rows(ekbe[g])[p[2]].DMBTR)}

\* C28 as claimed: on every data set of generate_all the engine's Invoice Amounts
\* check passes, no pair of the date-sorted sequence fallback being more than 2%
\* and more than 0.01 apart.
C28_InvoiceAmountsPass ==
    \A g \in Gens : phase[g] = "done" => BadPairs(g) = {}

\* C28 as amended: an invoice that the fallback pairs with a receipt of the same
\* line and the same quantity (the receipt it was made from, or one of the same
\* amount) is at most 1.9% of the receipt's amount plus half a cent away from it.
C28_OwnReceiptWithinNoise ==
    \A g \in Gens : phase[g] = "done" =>
        \A p \in MatchedPairs(HistoryOf(g)) :
            LET gr == Rows(ekbe[g])[p[1]]
                inv == Rows(ekbe[g])[p[2]]
            IN gr.MENGE = inv.MENGE
               => Abs(gr.DMBTR - inv.DMBTR)
                   <= 19 * (gr.DMBTR \div 1000) + (19 * (gr.DMBTR % 1000)) \div 1000
                      + PriceUnit \div 200

\* A finished data set with an invoice that is paired with its receipt and differs
\* from it, and one with a line delivered in two parts.
C28_Witness ==
    \E g \in Gens :
        /\ phase[g] = "done"
        /\ \E p \in MatchedPairs(HistoryOf(g)) :
              /\ Rows(ekbe[g])[p[1]].MENGE = Rows(ekbe[g])[p[2]].MENGE
              /\ Rows(ekbe[g])[p[1]].DMBTR # Rows(ekbe[g])[p[2]].DMBTR

\* C30 as claimed: for every num_materials >= 1 the material master of
\* generate_all passes Material Balance, no MATKL value covering more than 40%.
C30_MaterialsBalanced ==
    \A g \in Gens :
        (phase[g] = "done" /\ config[g].num_materials >= 1)
        => ~Imbalanced(Rows(mara[g]))

\* C30 as amended: the material master passes Material Balance for 5 materials
\* and for 7 or more; for 1, 2, 3, 4 and 6 materials the remainder category SERV
\* covers more than 40% and the check fails.
C30_MaterialsBalancedFromSeven ==
    \A g \in Gens :
        phase[g] = "done" /\ config[g].num_materials >= 1
        => (Imbalanced(Rows(mara[g])) <=> config[g].num_materials \in {1, 2, 3, 4, 6})

\* A finished material master of 7 or more materials with every category in it.
C30_Witness ==
    \E g \in Gens :
        /\ phase[g] = "done"
        /\ config[g].num_materials >= 7
        /\ Len(Rows(mara[g])) = config[g].num_materials
        /\ {m.MATKL : m \in Range(Rows(mara[g]))} = {"ELECT", "OFFICE", "RAW", "SERV"}

\* C29: a generator's output depends only on its own seed and configuration:
\* whatever other generator was constructed or run in the same process between
\* its construction and its stages, a generator that finished generate_all holds
\* the tables that every other finished generator of the same seed and
\* configuration holds.
C29_OutputDependsOnOwnSeedOnly ==
    \A g, h \in Gens :
        (phase[g] = "done" /\ phase[h] = "done"
         /\ config[g].seed = config[h].seed /\ config[g] = config[h])
        => /\ lfa1[g] = lfa1[h] /\ mara[g] = mara[h] /\ contracts[g] = contracts[h]
           /\ ekko[g] = ekko[h] /\ ekpo[g] = ekpo[h] /\ ekbe[g] = ekbe[h]

====
